---- MODULE Spec2Model ----
(***************************************************************************)
(* A model of bot.py: the per-user conversation state machine (user_data), *)
(* the generation / conversion functions and the file delivery with its    *)
(* retries and cleanup.                                                    *)
(*                                                                         *)
(* A Python str is a sequence of one-character strings; a file name is a   *)
(* sequence of strings; None (a missing key of user_data) is NoneStr.      *)
(* The Application is built without concurrent_updates, so the updates are *)
(* processed one at a time: every handler is one action.                   *)
(***************************************************************************)
EXTENDS Integers, Sequences, FiniteSets, TLC

VARIABLES user_data, files, keyboards, run

vars == <<user_data, files, keyboards, run>>

(***************************************************************************)
(* Bounds of the exploration.                                              *)
(***************************************************************************)
\* the messages of one chat whose inline keyboard is still alive
MaxKeyboards == 1

(***************************************************************************)
(* Python str operations.                                                  *)
(***************************************************************************)
NoneStr == <<"None">>

LowerSeq == <<"a", "b", "c", "d", "e", "f", "s", "t", "v", "x">>
UpperSeq == <<"A", "B", "C", "D", "E", "F", "S", "T", "V", "X">>
DigitSeq == <<"0", "1", "2", "3", "4", "5", "6", "7", "8", "9">>

Range(s) == {s[i] : i \in 1..Len(s)}

\* characters for which str.isalpha() is true ("ß" is a letter without a
\* one-character upper case)
AlphaChars == Range(LowerSeq) \cup Range(UpperSeq) \cup {"ß"}
\* characters int() accepts
DecimalChars == Range(DigitSeq)
\* characters for which str.isdigit() is true: the decimal digits and the
\* digits that are not decimal, such as superscript two
DigitChars == DecimalChars \cup {"²"}
WhitespaceChars == {" "}

\* str.upper() of one character
UpperChar(c) ==
    IF c \in Range(LowerSeq)
    THEN <<UpperSeq[CHOOSE i \in 1..Len(LowerSeq) : LowerSeq[i] = c]>>
    ELSE IF c = "ß" THEN <<"S", "S">> ELSE <<c>>

\* str.lower() of one character
LowerChar(c) ==
    IF c \in Range(UpperSeq)
    THEN <<LowerSeq[CHOOSE i \in 1..Len(UpperSeq) : UpperSeq[i] = c]>>
    ELSE <<c>>

RECURSIVE upper(_)
upper(s) == IF s = <<>> THEN <<>> ELSE UpperChar(Head(s)) \o upper(Tail(s))

RECURSIVE lower(_)
lower(s) == IF s = <<>> THEN <<>> ELSE LowerChar(Head(s)) \o lower(Tail(s))

isalpha(s) == Len(s) > 0 /\ \A i \in 1..Len(s) : s[i] \in AlphaChars

isdigit(s) == Len(s) > 0 /\ \A i \in 1..Len(s) : s[i] \in DigitChars

\* int(s) raises ValueError unless every character is a decimal digit
IntOk(s) == Len(s) > 0 /\ \A i \in 1..Len(s) : s[i] \in DecimalChars

DigitValue(c) == CHOOSE d \in 0..9 : DigitSeq[d + 1] = c

RECURSIVE IntAcc(_, _)
IntAcc(s, acc) ==
    IF s = <<>> THEN acc ELSE IntAcc(Tail(s), 10 * acc + DigitValue(Head(s)))

int(s) == IntAcc(s, 0)

\* f"{num:04d}" for 0 <= num <= 9999, the range of a four-digit input
Pad4(n) ==
    <<DigitSeq[((n \div 1000) % 10) + 1], DigitSeq[((n \div 100) % 10) + 1],
      DigitSeq[((n \div 10) % 10) + 1], DigitSeq[(n % 10) + 1]>>

RECURSIVE lstrip(_)
lstrip(s) ==
    IF s # <<>> /\ Head(s) \in WhitespaceChars THEN lstrip(Tail(s)) ELSE s

RECURSIVE rstrip(_)
rstrip(s) ==
    IF s # <<>> /\ s[Len(s)] \in WhitespaceChars
    THEN rstrip(SubSeq(s, 1, Len(s) - 1)) ELSE s

strip(s) == rstrip(lstrip(s))

\* s.startswith(p) at position i
MatchAt(s, p, i) ==
    i + Len(p) - 1 <= Len(s) /\ \A j \in 1..Len(p) : s[i + j - 1] = p[j]

Contains(s, p) == \E i \in 1..Len(s) : MatchAt(s, p, i)

endswith(s, p) == Len(s) >= Len(p) /\ MatchAt(s, p, Len(s) - Len(p) + 1)

\* s.split(sep, maxsplit): cut at the leftmost separators, at most maxsplit times
RECURSIVE split(_, _, _)
split(s, sep, maxsplit) ==
    IF maxsplit = 0 \/ ~Contains(s, sep) THEN <<s>>
    ELSE LET i == CHOOSE k \in 1..Len(s) :
                      MatchAt(s, sep, k) /\ \A j \in 1..(k - 1) : ~MatchAt(s, sep, j)
         IN  <<SubSeq(s, 1, i - 1)>>
               \o split(SubSeq(s, i + Len(sep), Len(s)), sep, maxsplit - 1)

\* s.split(): the maximal runs of non-whitespace characters
RECURSIVE SplitWs(_, _)
SplitWs(s, cur) ==
    IF s = <<>> THEN (IF cur = <<>> THEN <<>> ELSE <<cur>>)
    ELSE IF Head(s) \in WhitespaceChars
         THEN (IF cur = <<>> THEN <<>> ELSE <<cur>>) \o SplitWs(Tail(s), <<>>)
         ELSE SplitWs(Tail(s), Append(cur, Head(s)))

RECURSIVE Replace(_, _, _)
Replace(s, p, r) ==
    IF s = <<>> THEN <<>>
    ELSE IF p # <<>> /\ MatchAt(s, p, 1)
         THEN r \o Replace(SubSeq(s, Len(p) + 1, Len(s)), p, r)
         ELSE <<Head(s)>> \o Replace(Tail(s), p, r)

(***************************************************************************)
(* The storage: files maps the name of each existing file to its content.  *)
(***************************************************************************)
Exists(fs, name) == name \in DOMAIN fs

\* open(name, 'w') ... write
WriteFile(fs, name, content) ==
    [n \in DOMAIN fs \cup {name} |-> IF n = name THEN content ELSE fs[n]]

\* os.remove(name) of an existing file
RemoveFile(fs, name) == [n \in DOMAIN fs \ {name} |-> fs[n]]

RECURSIVE SumLen(_)
SumLen(ls) == IF ls = <<>> THEN 0 ELSE Len(Head(ls)) + 1 + SumLen(Tail(ls))

\* a text file written one line per element
TextContent(ls) == [lines |-> ls, size |-> SumLen(ls)]

(***************************************************************************)
(* Vehicle number generation.                                              *)
(***************************************************************************)
\* the numbers of one series over range(start_num, end_num + 1)
RECURSIVE SeriesNumbers(_, _, _, _)
SeriesNumbers(first_letters, second_numbers, series, r) ==
    IF r = <<>> THEN <<>>
    ELSE <<upper(first_letters) \o second_numbers \o series \o Pad4(Head(r))>>
           \o SeriesNumbers(first_letters, second_numbers, series, Tail(r))

\* range(start_num, end_num): the end is left out
NumRangeOpen(a, b) == [i \in 1..(b - a) |-> a + i - 1]

\* range(start_num, end_num + 1)
NumRange(a, b) == [i \in 1..(b - a + 1) |-> a + i - 1]

GenResult(fs, filename, error, exc) ==
    [files |-> fs, filename |-> filename, error |-> error, exc |-> exc]

generate_vehicle_numbers(fs, first_letters, second_numbers, third_letters, start_digits, end_digits) ==
    IF first_letters = NoneStr THEN GenResult(fs, NoneStr, "", "TypeError")
    ELSE IF Len(first_letters) # 2 \/ ~isalpha(first_letters)
    THEN GenResult(fs, NoneStr, "First part must be exactly 2 letters", "none")
    ELSE IF second_numbers = NoneStr THEN GenResult(fs, NoneStr, "", "TypeError")
    ELSE IF Len(second_numbers) # 2 \/ ~isdigit(second_numbers)
    THEN GenResult(fs, NoneStr, "Second part must be exactly 2 digits", "none")
    ELSE IF third_letters = NoneStr THEN GenResult(fs, NoneStr, "", "TypeError")
    ELSE IF Len(third_letters) # 2 \/ ~isalpha(third_letters)
    THEN GenResult(fs, NoneStr, "Third part (series) must be exactly 2 letters", "none")
    ELSE IF start_digits = NoneStr THEN GenResult(fs, NoneStr, "", "TypeError")
    ELSE IF Len(start_digits) # 4 \/ ~isdigit(start_digits)
    THEN GenResult(fs, NoneStr, "Start digits must be exactly 4 digits", "none")
    ELSE IF end_digits = NoneStr THEN GenResult(fs, NoneStr, "", "TypeError")
    ELSE IF Len(end_digits) # 4 \/ ~isdigit(end_digits)
    THEN GenResult(fs, NoneStr, "End digits must be exactly 4 digits", "none")
    ELSE IF ~IntOk(start_digits) \/ ~IntOk(end_digits)
    THEN GenResult(fs, NoneStr, "", "ValueError")
    ELSE IF int(start_digits) > int(end_digits)
    THEN GenResult(fs, NoneStr,
                   "Start digits must be less than or equal to end digits", "none")
    ELSE LET numbers == SeriesNumbers(first_letters, second_numbers,
                                      upper(third_letters),
                                      NumRange(int(start_digits), int(end_digits)))
             filename == <<"vehicle_numbers_">> \o upper(first_letters)
                           \o second_numbers \o upper(third_letters) \o <<".txt">>
         IN  GenResult(WriteFile(fs, filename, TextContent(numbers)),
                       filename, "", "none")

\* the loop over series_list with each series put before the earlier ones
RECURSIVE BatchNumbersReversed(_, _, _, _)
BatchNumbersReversed(first_letters, second_numbers, series_list, r) ==
    IF series_list = <<>> THEN [ok |-> TRUE, numbers |-> <<>>]
    ELSE LET series == upper(strip(Head(series_list)))
             rest == BatchNumbersReversed(first_letters, second_numbers,
                                          Tail(series_list), r)
         IN  [ok |-> rest.ok /\ Len(series) = 2 /\ isalpha(series),
              numbers |-> rest.numbers
                            \o SeriesNumbers(first_letters, second_numbers, series, r)]

\* the loop over series_list: the numbers so far, or the first invalid series
RECURSIVE BatchNumbers(_, _, _, _)
BatchNumbers(first_letters, second_numbers, series_list, r) ==
    IF series_list = <<>> THEN [ok |-> TRUE, numbers |-> <<>>]
    ELSE LET series == upper(strip(Head(series_list)))
         IN  IF Len(series) # 2 \/ ~isalpha(series)
             THEN [ok |-> FALSE, numbers |-> <<>>]
             ELSE LET rest == BatchNumbers(first_letters, second_numbers,
                                           Tail(series_list), r)
                  IN  IF rest.ok
                      THEN [ok |-> TRUE,
                            numbers |-> SeriesNumbers(first_letters, second_numbers,
                                                      series, r) \o rest.numbers]
                      ELSE rest

\* the batch generation without its checks: a reversed range writes an empty file
GenerateBatchUnchecked(fs, first_letters, second_numbers, series_list, start_digits, end_digits) ==
    LET all == BatchNumbers(first_letters, second_numbers, series_list,
                            NumRange(int(start_digits), int(end_digits)))
        filename == <<"vehicle_numbers_batch_">> \o upper(first_letters)
                      \o second_numbers \o <<".txt">>
    IN  GenResult(WriteFile(fs, filename, TextContent(all.numbers)), filename, "", "none")

generate_batch_vehicle_numbers(fs, first_letters, second_numbers, series_list, start_digits, end_digits) ==
    IF first_letters = NoneStr THEN GenResult(fs, NoneStr, "", "TypeError")
    ELSE IF Len(first_letters) # 2 \/ ~isalpha(first_letters)
    THEN GenResult(fs, NoneStr, "First part must be exactly 2 letters", "none")
    ELSE IF second_numbers = NoneStr THEN GenResult(fs, NoneStr, "", "TypeError")
    ELSE IF Len(second_numbers) # 2 \/ ~isdigit(second_numbers)
    THEN GenResult(fs, NoneStr, "Second part must be exactly 2 digits", "none")
    ELSE IF start_digits = NoneStr THEN GenResult(fs, NoneStr, "", "TypeError")
    ELSE IF Len(start_digits) # 4 \/ ~isdigit(start_digits)
    THEN GenResult(fs, NoneStr, "Start digits must be exactly 4 digits", "none")
    ELSE IF end_digits = NoneStr THEN GenResult(fs, NoneStr, "", "TypeError")
    ELSE IF Len(end_digits) # 4 \/ ~isdigit(end_digits)
    THEN GenResult(fs, NoneStr, "End digits must be exactly 4 digits", "none")
    ELSE IF series_list = <<>>
    THEN GenResult(fs, NoneStr, "No series provided", "none")
    ELSE IF ~IntOk(start_digits) \/ ~IntOk(end_digits)
    THEN GenResult(fs, NoneStr, "", "ValueError")
    ELSE IF int(start_digits) > int(end_digits)
    THEN GenResult(fs, NoneStr,
                   "Start digits must be less than or equal to end digits", "none")
    ELSE LET all == BatchNumbers(first_letters, second_numbers, series_list,
                                 NumRange(int(start_digits), int(end_digits)))
             filename == <<"vehicle_numbers_batch_">> \o upper(first_letters)
                           \o second_numbers \o <<".txt">>
         IN  IF ~all.ok
             THEN GenResult(fs, NoneStr, "Invalid series", "none")
             ELSE GenResult(WriteFile(fs, filename, TextContent(all.numbers)),
                            filename, "", "none")

(***************************************************************************)
(* TXT to CSV conversion.  A CSV file holds rows <<first, second>>.        *)
(***************************************************************************)
Separator == <<" ", "-", " ">>

CsvHeader == <<<<"Number">>, <<"Vehicle Number">>>>

\* the rows written with the vehicle number first
RECURSIVE ConvertRowsSwapped(_)
ConvertRowsSwapped(lines) ==
    IF lines = <<>> THEN <<>>
    ELSE LET line == strip(Head(lines))
             parts == split(line, Separator, 2)
             rest == ConvertRowsSwapped(Tail(lines))
         IN  IF line = <<>> \/ ~Contains(line, Separator) \/ Len(parts) < 2 THEN rest
             ELSE IF strip(parts[1]) # <<>> /\ strip(parts[2]) # <<>>
             THEN << <<strip(parts[1]), strip(parts[2])>> >> \o rest
             ELSE rest

\* the rows written when the line is cut at its first separator only
RECURSIVE ConvertRowsOneSplit(_)
ConvertRowsOneSplit(lines) ==
    IF lines = <<>> THEN <<>>
    ELSE LET line == strip(Head(lines))
             parts == split(line, Separator, 1)
             rest == ConvertRowsOneSplit(Tail(lines))
         IN  IF line = <<>> \/ ~Contains(line, Separator) \/ Len(parts) < 2 THEN rest
             ELSE IF strip(parts[1]) # <<>> /\ strip(parts[2]) # <<>>
             THEN << <<strip(parts[2]), strip(parts[1])>> >> \o rest
             ELSE rest

\* the rows written for the lines, in order
RECURSIVE ConvertRows(_)
ConvertRows(lines) ==
    IF lines = <<>> THEN <<>>
    ELSE LET line == strip(Head(lines))
             parts == split(line, Separator, 2)
             rest == ConvertRows(Tail(lines))
         IN  IF line = <<>> THEN rest
             ELSE IF ~Contains(line, Separator) THEN rest
             ELSE IF Len(parts) < 2 THEN rest
             ELSE LET vehicle_number == strip(parts[1])
                      phone_number == strip(parts[2])
                  IN  IF vehicle_number # <<>> /\ phone_number # <<>>
                      THEN <<<<phone_number, vehicle_number>>>> \o rest
                      ELSE rest

RECURSIVE SumRows(_)
SumRows(rows) ==
    IF rows = <<>> THEN 0
    ELSE Len(Head(rows)[1]) + Len(Head(rows)[2]) + 3 + SumRows(Tail(rows))

CsvContent(rows) == [lines |-> rows, size |-> SumRows(rows)]

ConvResult(fs, success, error) == [files |-> fs, success |-> success, error |-> error]

\* the conversion without the count of the rows written
ConvertUncounted(fs, txt_file_path, csv_file_path) ==
    IF ~Exists(fs, txt_file_path) THEN ConvResult(fs, FALSE, "FileNotFoundError")
    ELSE IF fs[txt_file_path].lines = <<>> THEN ConvResult(fs, FALSE, "The TXT file is empty")
    ELSE ConvResult(WriteFile(fs, csv_file_path,
                              CsvContent(<<CsvHeader>> \o ConvertRows(fs[txt_file_path].lines))),
                    TRUE, "")

convert_txt_to_csv(fs, txt_file_path, csv_file_path) ==
    IF ~Exists(fs, txt_file_path) THEN ConvResult(fs, FALSE, "FileNotFoundError")
    ELSE LET lines == fs[txt_file_path].lines
             rows == ConvertRows(lines)
             written == WriteFile(fs, csv_file_path, CsvContent(<<CsvHeader>> \o rows))
         IN  IF lines = <<>> THEN ConvResult(fs, FALSE, "The TXT file is empty")
             ELSE IF Len(rows) = 0
             THEN ConvResult(written, FALSE, "No valid data found")
             ELSE ConvResult(written, TRUE, "")

(***************************************************************************)
(* user_data: a dict, a function from the keys present to their values.    *)
(***************************************************************************)
EmptyDict == [k \in {} |-> NoneStr]

Has(d, k) == k \in DOMAIN d

Get(d, k, default) == IF k \in DOMAIN d THEN d[k] ELSE default

Put(d, k, v) == [x \in DOMAIN d \cup {k} |-> IF x = k THEN v ELSE d[x]]

\* clear that forgets nothing
clearNothing(d) == d

\* user_data.clear()
clear(d) == EmptyDict

\* Advance with the order of the steps lost: whatever step comes next, the
\* confirmation is awaited
AdvanceToConfirm(ud, field, value, next) == Put(Put(ud, field, value), "step", "confirm")

\* a step completed: the validated value is stored and the next step awaited
Advance(ud, field, value, next) == Put(Put(ud, field, value), "step", next)

\* InvalidRange with the comparison turned round
InvalidRangeReversed(start_digits, end_digits) == int(start_digits) < int(end_digits)

\* the cross-field check of the end_digits step
InvalidRange(start_digits, end_digits) == int(start_digits) > int(end_digits)

(***************************************************************************)
(* What a handler does besides changing user_data and the storage: the     *)
(* transport calls with their outcomes, the sleeps, the removals and the   *)
(* clears, in order.  A transport call ends "ok", raises TimedOut or       *)
(* NetworkError ("transient") or raises another error ("other").           *)
(***************************************************************************)
Outcomes == {"ok", "transient", "other"}

Entry(op, what, res, markup, file, name) ==
    [op |-> op, what |-> what, res |-> res, markup |-> markup, file |-> file,
     name |-> name]

ReplyText(what, res) == Entry("reply_text", what, res, "none", <<>>, <<>>)
ReplyMarkup(what, res, markup) == Entry("reply_text", what, res, markup, <<>>, <<>>)
EditText(what, res) == Entry("edit_message_text", what, res, "none", <<>>, <<>>)
\* reply_document of the file at path under the name filename
ReplyDocument(res, path, filename) ==
    Entry("reply_document", "document", res, "none", path, filename)
Answer(res) == Entry("answer", "answer", res, "none", <<>>, <<>>)
GetFile(res) == Entry("get_file", "get_file", res, "none", <<>>, <<>>)
Download(res, path) == Entry("download_to_drive", "download", res, "none", path, <<>>)
Sleep == Entry("sleep", "sleep", "ok", "none", <<>>, <<>>)
\* os.remove(file): res is "ok", or "missing" when it raises FileNotFoundError
Remove(file, res) == Entry("remove", "remove", res, "none", file, <<>>)
Clear == Entry("clear", "clear", "ok", "none", <<>>, <<>>)
\* a call of generate_vehicle_numbers ("single") or of
\* generate_batch_vehicle_numbers ("batch"): res is "ok", "error" or "raised"
Generate(what, res) == Entry("generate", what, res, "none", <<>>, <<>>)
\* a call of convert_txt_to_csv
Convert(res) == Entry("convert", "convert", res, "none", <<>>, <<>>)

\* the exception a failed transport call raises
ExcOf(res) == IF res = "transient" THEN "TimedOut" ELSE "TelegramError"

\* what a handler leaves: user_data, the storage, its log, the exception it
\* ends with ("none" when it returns)
Result(ud, fs, log, exc) == [ud |-> ud, files |-> fs, log |-> log, exc |-> exc]

\* the handler's remaining steps r, unless the transport call just made raised
Then(ud, fs, entry, r) ==
    IF entry.res # "ok" THEN Result(ud, fs, <<entry>>, ExcOf(entry.res))
    ELSE Result(r.ud, r.files, <<entry>> \o r.log, r.exc)

\* the outcomes left after the first n
Drop(o, n) == SubSeq(o, n + 1, Len(o))

\* a handler's last transport call
Last(ud, fs, entry) == Then(ud, fs, entry, Result(ud, fs, <<>>, "none"))

SafeMaxRetries == 2

\* safe_reply: the log of its attempts; it never raises
RECURSIVE safe_reply(_, _, _)
safe_reply(what, o, attempt) ==
    IF attempt >= SafeMaxRetries THEN <<>>
    ELSE IF o[1] = "ok" THEN <<ReplyText(what, "ok")>>
    ELSE IF o[1] = "transient"
         THEN IF attempt < SafeMaxRetries - 1
              THEN <<ReplyText(what, "transient"), Sleep>>
                     \o safe_reply(what, Drop(o, 1), attempt + 1)
              ELSE <<ReplyText(what, "transient")>>
    ELSE <<ReplyText(what, "other")>>

(***************************************************************************)
(* The text handlers of the Single and Batch workflows.                    *)
(***************************************************************************)
\* the end_digits step, shared in shape by both workflows: markup is the
\* keyboard of the confirmation message
EndDigitsStep(ud, fs, text, o, markup) ==
    IF Len(text) # 4 \/ ~isdigit(text)
    THEN Last(ud, fs, ReplyText("invalid", o[1]))
    ELSE LET start_digits == Get(ud, "start_digits", NoneStr)
             end_digits == text
         IN  IF start_digits = NoneStr THEN Result(ud, fs, <<>>, "TypeError")
             ELSE IF ~IntOk(start_digits) \/ ~IntOk(end_digits)
             THEN Result(ud, fs, <<>>, "ValueError")
             ELSE IF InvalidRange(start_digits, end_digits)
             THEN Last(ud, fs, ReplyText("invalid_range", o[1]))
             ELSE LET done == Advance(ud, "end_digits", end_digits, "confirm")
                  IN  Then(ud, fs, ReplyMarkup("confirm", o[1], markup),
                           Result(done, fs, <<>>, "none"))

handle_single_generation(ud, fs, text, step, o) ==
    IF step = "first_letters"
    THEN LET t == upper(text)
         IN  IF Len(t) # 2 \/ ~isalpha(t)
             THEN Result(ud, fs, safe_reply("invalid", o, 0), "none")
             ELSE Result(Advance(ud, "first_letters", t, "second_numbers"),
                         fs, safe_reply("prompt", o, 0), "none")
    ELSE IF step = "second_numbers"
    THEN IF Len(text) # 2 \/ ~isdigit(text)
         THEN Last(ud, fs, ReplyText("invalid", o[1]))
         ELSE LET next == Advance(ud, "second_numbers", text, "third_letters")
              IN  Last(next, fs, ReplyText("prompt", o[1]))
    ELSE IF step = "third_letters"
    THEN LET t == upper(text)
         IN  IF Len(t) # 2 \/ ~isalpha(t)
             THEN Last(ud, fs, ReplyText("invalid", o[1]))
             ELSE LET next == Advance(ud, "third_letters", t, "start_digits")
                  IN  Last(next, fs, ReplyText("prompt", o[1]))
    ELSE IF step = "start_digits"
    THEN IF Len(text) # 4 \/ ~isdigit(text)
         THEN Last(ud, fs, ReplyText("invalid", o[1]))
         ELSE LET next == Advance(ud, "start_digits", text, "end_digits")
              IN  Last(next, fs, ReplyText("prompt", o[1]))
    ELSE IF step = "end_digits"
    THEN EndDigitsStep(ud, fs, text, o, "single")
    ELSE Result(ud, fs, <<>>, "none")

\* [s.strip() for s in text.split(',')]
RECURSIVE StripAll(_)
StripAll(l) == IF l = <<>> THEN <<>> ELSE <<strip(Head(l))>> \o StripAll(Tail(l))

\* the series kept by the loop over series_list
RECURSIVE ValidSeries(_)
ValidSeries(l) ==
    IF l = <<>> THEN <<>>
    ELSE LET series == strip(Head(l))
         IN  IF Len(series) = 2 /\ isalpha(series)
             THEN <<series>> \o ValidSeries(Tail(l))
             ELSE ValidSeries(Tail(l))

\* split(',') cuts at every comma
CommaSplit(t) == split(t, <<",">>, Len(t))

ParseSeriesList(text) ==
    LET t == upper(text)
    IN  ValidSeries(IF Contains(t, <<",">>) THEN StripAll(CommaSplit(t))
                    ELSE SplitWs(t, <<>>))

handle_batch_generation(ud, fs, text, step, o) ==
    IF step = "first_letters"
    THEN LET t == upper(text)
         IN  IF Len(t) # 2 \/ ~isalpha(t)
             THEN Last(ud, fs, ReplyText("invalid", o[1]))
             ELSE LET next == Advance(ud, "first_letters", t, "second_numbers")
                  IN  Last(next, fs, ReplyText("prompt", o[1]))
    ELSE IF step = "second_numbers"
    THEN IF Len(text) # 2 \/ ~isdigit(text)
         THEN Last(ud, fs, ReplyText("invalid", o[1]))
         ELSE LET next == Advance(ud, "second_numbers", text, "series_list")
              IN  Last(next, fs, ReplyText("prompt", o[1]))
    ELSE IF step = "series_list"
    THEN LET valid_series == ParseSeriesList(text)
         IN  IF valid_series = <<>>
             THEN Last(ud, fs, ReplyText("invalid", o[1]))
             ELSE LET next == Advance(ud, "series_list", valid_series, "start_digits")
                  IN  Last(next, fs, ReplyText("prompt", o[1]))
    ELSE IF step = "start_digits"
    THEN IF Len(text) # 4 \/ ~isdigit(text)
         THEN Last(ud, fs, ReplyText("invalid", o[1]))
         ELSE LET next == Advance(ud, "start_digits", text, "end_digits")
              IN  Last(next, fs, ReplyText("prompt", o[1]))
    ELSE IF step = "end_digits"
    THEN EndDigitsStep(ud, fs, text, o, "batch")
    ELSE Result(ud, fs, <<>>, "none")

(***************************************************************************)
(* Delivery of a file: the retry loop, the cleanup and the reports.        *)
(***************************************************************************)
\* MaxRetries with one more attempt
MaxRetriesPlusOne == 3 + 1

MaxRetries == 3

\* for attempt in range(max_retries): open the file and reply_document.
\* status: "sent" (break), "exhausted" (the last attempt timed out), or the
\* exception that leaves the loop; used: the transport calls made
RECURSIVE SendAttempts(_, _, _, _, _)
SendAttempts(fs, path, filename, o, attempt) ==
    IF ~Exists(fs, path)
    THEN [log |-> <<>>, status |-> "FileNotFoundError", used |-> 0]
    ELSE IF o[1] = "ok"
    THEN [log |-> <<ReplyDocument("ok", path, filename)>>, status |-> "sent", used |-> 1]
    ELSE IF o[1] = "transient"
    THEN IF attempt < MaxRetries - 1
         THEN LET r == SendAttempts(fs, path, filename, Drop(o, 1), attempt + 1)
              IN  [log |-> <<ReplyDocument("transient", path, filename), Sleep>> \o r.log,
                   status |-> r.status, used |-> r.used + 1]
         ELSE [log |-> <<ReplyDocument("transient", path, filename)>>,
               status |-> "exhausted", used |-> 1]
    ELSE [log |-> <<ReplyDocument("other", path, filename)>>,
          status |-> "TelegramError", used |-> 1]

\* try: os.remove(filename) except: pass
TryRemove(fs, filename) ==
    IF Exists(fs, filename)
    THEN [files |-> RemoveFile(fs, filename), log |-> <<Remove(filename, "ok")>>]
    ELSE [files |-> fs, log |-> <<Remove(filename, "missing")>>]

\* if path and os.path.exists(path): os.remove(path)
RemoveIfExists(fs, path) ==
    IF path # NoneStr /\ path # <<>> /\ Exists(fs, path)
    THEN [files |-> RemoveFile(fs, path), log |-> <<Remove(path, "ok")>>]
    ELSE [files |-> fs, log |-> <<>>]

\* the cleanup of send_csv_file: the input file, then the converted file
CsvCleanup(fs, txt_file_path, csv_file_path) ==
    LET a == RemoveIfExists(fs, txt_file_path)
        b == RemoveIfExists(a.files, csv_file_path)
    IN  [files |-> b.files, log |-> a.log \o b.log]

\* the cleanup of the csv_cancel button: the converted file, then the input file
CancelCleanup(fs, csv_file_path, txt_file_path) ==
    LET a == RemoveIfExists(fs, csv_file_path)
        b == RemoveIfExists(a.files, txt_file_path)
    IN  [files |-> b.files, log |-> a.log \o b.log]

send_csv_file(ud, fs, csv_file_path, filename, txt_file_path, o) ==
    LET a == SendAttempts(fs, csv_file_path, filename, o, 0)
        report == Drop(o, a.used)[1]
        c == CsvCleanup(fs, txt_file_path, csv_file_path)
    IN  IF a.status = "sent"
        THEN IF report = "ok"
             THEN Result(clear(ud), c.files,
                         a.log \o c.log \o <<ReplyText("success_report", "ok"), Clear>>,
                         "none")
             ELSE Result(ud, c.files,
                         a.log \o c.log \o <<ReplyText("success_report", report)>>,
                         ExcOf(report))
        ELSE IF a.status = "exhausted"
        THEN IF report = "ok"
             THEN Result(clear(ud), c.files,
                         a.log \o <<ReplyText("failure_notice", "ok")>> \o c.log
                           \o <<Clear>>,
                         "none")
             ELSE Result(ud, fs, a.log \o <<ReplyText("failure_notice", report)>>,
                         ExcOf(report))
        ELSE Result(ud, fs, a.log, a.status)

\* button_callback after a successful generation: the file g.filename is
\* sent, removed and reported (the same code for generate and batch_generate)
DeliverGenerated(ud, g, o) ==
    LET a == SendAttempts(g.files, g.filename, g.filename, o, 0)
        report == Drop(o, a.used)[1]
        c == TryRemove(g.files, g.filename)
    IN  IF a.status = "sent"
        THEN IF report = "ok"
             THEN Result(clear(ud), c.files,
                         a.log \o c.log \o <<ReplyText("success_report", "ok"), Clear>>,
                         "none")
             ELSE Result(ud, c.files,
                         a.log \o c.log \o <<ReplyText("success_report", report)>>,
                         ExcOf(report))
        ELSE IF a.status = "exhausted"
        THEN IF report = "ok"
             THEN Result(clear(ud), c.files,
                         a.log \o <<EditText("failure_notice", "ok")>> \o c.log
                           \o <<Clear>>,
                         "none")
             ELSE Result(ud, g.files, a.log \o <<EditText("failure_notice", report)>>,
                         ExcOf(report))
        ELSE Result(ud, g.files, a.log, a.status)

\* the characters replaced in a custom file name
InvalidChars == {"<", ">", ":", "\"", "/", "\\", "|", "?", "*"}

\* the name with no character replaced
KeepFilename(name) == name

CleanFilename(name) == [i \in 1..Len(name) |-> IF name[i] \in InvalidChars THEN "_" ELSE name[i]]

CsvExt == <<".", "c", "s", "v">>
TxtExt == <<".", "t", "x", "t">>

handle_csv_rename(ud, fs, text, o) ==
    LET csv_file_path == Get(ud, "csv_file_path", NoneStr)
        txt_file_path == Get(ud, "txt_file_path", NoneStr)
        new_filename == strip(text)
        cleaned == CleanFilename(new_filename)
        named == IF endswith(lower(cleaned), CsvExt) THEN cleaned ELSE cleaned \o CsvExt
    IN  IF csv_file_path = NoneStr \/ csv_file_path = <<>>
        THEN Result(clear(ud), fs, safe_reply("not_found", o, 0) \o <<Clear>>, "none")
        ELSE IF new_filename = <<>>
        THEN Result(ud, fs, safe_reply("invalid", o, 0), "none")
        ELSE send_csv_file(ud, fs, csv_file_path, named, txt_file_path, o)

\* the transport calls of a log
Calls(log) ==
    Len(SelectSeq(log, LAMBDA e : e.op \in {"reply_text", "edit_message_text",
                                             "reply_document", "answer", "get_file",
                                             "download_to_drive"}))

handle_message(ud, fs, text_in, o) ==
    LET mode == Get(ud, "mode", "None")
        step == Get(ud, "step", "None")
        text == strip(text_in)
        r == IF mode = "txt2csv" /\ step = "waiting_rename"
             THEN handle_csv_rename(ud, fs, text, o)
             ELSE IF mode = "single" THEN handle_single_generation(ud, fs, text, step, o)
             ELSE IF mode = "batch" THEN handle_batch_generation(ud, fs, text, step, o)
             ELSE Result(ud, fs, <<>>, "none")
    IN  IF mode = "None" THEN Result(ud, fs, <<>>, "none")
        ELSE IF r.exc = "none" THEN r
        ELSE Result(r.ud, r.files,
                    r.log \o safe_reply("error", Drop(o, Calls(r.log)), 0), "none")

(***************************************************************************)
(* button_callback.                                                        *)
(***************************************************************************)
GenRes(g) == IF g.exc # "none" THEN "raised" ELSE IF g.error # "" THEN "error" ELSE "ok"

\* what follows the call of a generator, g its result, o the outcomes of the
\* transport calls still to make
AfterGenerate(ud, fs, what, g, o) ==
    LET r == IF g.exc # "none" THEN Result(ud, fs, <<>>, g.exc)
             ELSE IF g.error # ""
             THEN Then(ud, fs, EditText("generation_error", o[1]),
                       Result(clear(ud), fs, <<Clear>>, "none"))
             ELSE DeliverGenerated(ud, g, o)
    IN  Result(r.ud, r.files, <<Generate(what, GenRes(g))>> \o r.log, r.exc)

DefaultName == <<"converted.csv">>

ButtonBody(ud, fs, data, o) ==
    LET mode == Get(ud, "mode", "None")
        csv_file_path == Get(ud, "csv_file_path", NoneStr)
        txt_file_path == Get(ud, "txt_file_path", NoneStr)
    IN  IF data = "cancel_gen"
        THEN Then(ud, fs, EditText("cancelled", o[1]),
                  Result(clear(ud), fs, <<Clear>>, "none"))
        ELSE IF data = "generate" /\ mode = "single"
        THEN Then(ud, fs, EditText("processing", o[1]),
                  AfterGenerate(ud, fs, "single",
                      generate_vehicle_numbers(fs,
                          Get(ud, "first_letters", NoneStr),
                          Get(ud, "second_numbers", NoneStr),
                          Get(ud, "third_letters", NoneStr),
                          Get(ud, "start_digits", NoneStr),
                          Get(ud, "end_digits", NoneStr)),
                      Drop(o, 1)))
        ELSE IF data = "csv_use_default"
        THEN IF csv_file_path # NoneStr /\ csv_file_path # <<>>
             THEN Then(ud, fs, EditText("sending", o[1]),
                       send_csv_file(ud, fs, csv_file_path,
                                     Get(ud, "default_filename", DefaultName),
                                     txt_file_path, Drop(o, 1)))
             ELSE Then(ud, fs, EditText("not_found", o[1]),
                       Result(clear(ud), fs, <<Clear>>, "none"))
        ELSE IF data = "csv_rename"
        THEN Last(Put(ud, "step", "waiting_rename"), fs, EditText("rename_prompt", o[1]))
        ELSE IF data = "csv_cancel"
        THEN LET c == CancelCleanup(fs, csv_file_path, txt_file_path)
                 r == Then(ud, c.files, EditText("cancelled", o[1]),
                           Result(clear(ud), c.files, <<Clear>>, "none"))
             IN  Result(r.ud, r.files, c.log \o r.log, r.exc)
        ELSE IF data = "batch_generate" /\ mode = "batch"
        THEN Then(ud, fs, EditText("processing", o[1]),
                  AfterGenerate(ud, fs, "batch",
                      generate_batch_vehicle_numbers(fs,
                          Get(ud, "first_letters", NoneStr),
                          Get(ud, "second_numbers", NoneStr),
                          Get(ud, "series_list", <<>>),
                          Get(ud, "start_digits", NoneStr),
                          Get(ud, "end_digits", NoneStr)),
                      Drop(o, 1)))
        ELSE Result(ud, fs, <<>>, "none")

button_callback(ud, fs, data, o) ==
    Then(ud, fs, Answer(o[1]), ButtonBody(ud, fs, data, Drop(o, 1)))

(***************************************************************************)
(* handle_document.  A document is [file_id, file_name, size, lines].      *)
(***************************************************************************)
\* a ceiling one byte above 50 * 1024 * 1024
MaxFileSizePlusOne == 52428800 + 1

MaxFileSize == 52428800

TempPath(file_id) == <<"temp_", file_id, ".txt">>
ConvertedPath(file_id) == <<"converted_", file_id, ".csv">>

\* the state in which the try block ends: raised says whether by an
\* exception, txt_local and csv_local whether the paths were assigned
TryEnd(ud, fs, log, raised, exc, txt_local, csv_local) ==
    [ud |-> ud, files |-> fs, log |-> log, raised |-> raised, exc |-> exc,
     txt_local |-> txt_local, csv_local |-> csv_local]

\* a transport call of the try block, then the remaining steps r
TryCall(ud, fs, entry, txt_local, csv_local, r) ==
    IF entry.res # "ok"
    THEN TryEnd(ud, fs, <<entry>>, TRUE, ExcOf(entry.res), txt_local, csv_local)
    ELSE TryEnd(r.ud, r.files, <<entry>> \o r.log, r.raised, r.exc,
                r.txt_local, r.csv_local)

Returned(ud, fs) == TryEnd(ud, fs, <<>>, FALSE, "none", TRUE, TRUE)

\* the steps r of the try block after the steps of log
Prefixed(log, r) ==
    TryEnd(r.ud, r.files, log \o r.log, r.raised, r.exc, r.txt_local, r.csv_local)

\* the keys stored after a conversion
Stored(ud, doc, conv) ==
    [k \in DOMAIN ud \cup {"csv_file_path", "txt_file_path", "default_filename",
                            "line_count", "file_size_mb", "step"} |->
        IF k = "csv_file_path" THEN ConvertedPath(doc.file_id)
        ELSE IF k = "txt_file_path" THEN TempPath(doc.file_id)
        ELSE IF k = "default_filename" THEN Replace(doc.file_name, TxtExt, CsvExt)
        ELSE IF k = "line_count"
        THEN Len(conv.files[ConvertedPath(doc.file_id)].lines) - 1
        ELSE IF k = "file_size_mb" THEN conv.files[ConvertedPath(doc.file_id)].size
        ELSE IF k = "step" THEN "ask_rename"
        ELSE ud[k]]

\* the conversion and, when it failed, the removal of the input, then r
Converted(doc, conv, r) ==
    Prefixed(<<Convert(IF conv.success THEN "ok" ELSE "error")>>
               \o (IF conv.success THEN <<>>
                   ELSE <<Remove(TempPath(doc.file_id), "ok")>>), r)

\* the try block after the conversion, conv its result
AfterConvert(ud, doc, o, conv) ==
    LET txt_file_path == TempPath(doc.file_id)
        csv_file_path == ConvertedPath(doc.file_id)
        default_filename == Replace(doc.file_name, TxtExt, CsvExt)
    IN  IF ~conv.success
        THEN TryCall(ud, RemoveFile(conv.files, txt_file_path),
                     ReplyText("conversion_failed", o[1]), TRUE, TRUE,
                     Returned(ud, RemoveFile(conv.files, txt_file_path)))
        ELSE TryCall(Stored(ud, doc, conv), conv.files,
                     ReplyMarkup("ask_rename", o[1], "csv"), TRUE, TRUE,
                     Returned(Stored(ud, doc, conv), conv.files))

\* the try block from the conversion on
DocumentConvert(ud, fs, doc, o) ==
    Converted(doc, convert_txt_to_csv(fs, TempPath(doc.file_id),
                                      ConvertedPath(doc.file_id)),
              AfterConvert(ud, doc, o,
                           convert_txt_to_csv(fs, TempPath(doc.file_id),
                                              ConvertedPath(doc.file_id))))

\* the try block after the download: the size check, the conversion
AfterDownload(ud, doc, o, downloaded) ==
    IF doc.size > MaxFileSize
    THEN Prefixed(<<Remove(TempPath(doc.file_id), "ok")>>,
                  TryCall(ud, RemoveFile(downloaded, TempPath(doc.file_id)),
                          ReplyText("too_large", o[4]), TRUE, FALSE,
                          Returned(ud, RemoveFile(downloaded, TempPath(doc.file_id)))))
    ELSE TryCall(ud, downloaded, ReplyText("converting", o[4]), TRUE, FALSE,
                 DocumentConvert(ud, downloaded, doc, Drop(o, 4)))

\* the try block
DocumentTry(ud, fs, doc, o) ==
    TryCall(ud, fs, ReplyText("downloading", o[1]), FALSE, FALSE,
    TryCall(ud, fs, GetFile(o[2]), FALSE, FALSE,
    TryCall(ud, fs, Download(o[3], TempPath(doc.file_id)), TRUE, FALSE,
        AfterDownload(ud, doc, o,
                      WriteFile(fs, TempPath(doc.file_id),
                                [lines |-> doc.lines, size |-> doc.size])))))

\* the cleanup of the except block: the first os.remove that raises ends it
ExceptCleanup(fs, txt_file_path, csv_file_path, txt_local, csv_local) ==
    IF txt_local /\ ~Exists(fs, txt_file_path)
    THEN [files |-> fs, log |-> <<Remove(txt_file_path, "missing")>>]
    ELSE LET a == IF txt_local THEN TryRemove(fs, txt_file_path)
                  ELSE [files |-> fs, log |-> <<>>]
             b == IF csv_local THEN TryRemove(a.files, csv_file_path)
                  ELSE [files |-> a.files, log |-> <<>>]
         IN  [files |-> b.files, log |-> a.log \o b.log]

\* the except block, c its cleanup: the report of the error comes first
ExceptBlock(ud, t, report, c) ==
    IF report # "ok"
    THEN Result(t.ud, t.files, t.log \o <<ReplyText("error", report)>>, ExcOf(report))
    ELSE Result(clear(ud), c.files,
                t.log \o <<ReplyText("error", "ok")>> \o c.log \o <<Clear>>, "none")

\* the end of handle_document, t the end of its try block
DocumentEnd(ud, doc, o, t) ==
    IF ~t.raised THEN Result(t.ud, t.files, t.log, "none")
    ELSE ExceptBlock(ud, t, Drop(o, Calls(t.log))[1],
                     ExceptCleanup(t.files, TempPath(doc.file_id),
                                   ConvertedPath(doc.file_id), t.txt_local, t.csv_local))

handle_document(ud, fs, doc, o) ==
    IF Get(ud, "mode", "None") # "txt2csv" \/ Get(ud, "step", "None") # "waiting_file"
    THEN Result(ud, fs, <<>>, "none")
    ELSE IF ~endswith(lower(doc.file_name), TxtExt)
    THEN Last(ud, fs, ReplyText("invalid_type", o[1]))
    ELSE DocumentEnd(ud, doc, o, DocumentTry(ud, fs, doc, o))

(***************************************************************************)
(* The commands.                                                           *)
(***************************************************************************)
\* a workflow started on top of the fields of the earlier one
NewWorkflowKeeping(ud, mode, step) == Put(Put(ud, "mode", mode), "step", step)

NewWorkflow(ud, mode, step) == Put(Put(clear(ud), "mode", mode), "step", step)

start_command(ud, fs, o) ==
    Result(NewWorkflow(ud, "single", "first_letters"), fs,
           <<Clear, ReplyText("welcome", o[1])>>,
           IF o[1] = "ok" THEN "none" ELSE ExcOf(o[1]))

batch_command(ud, fs, o) ==
    Result(NewWorkflow(ud, "batch", "first_letters"), fs,
           <<Clear, ReplyText("welcome", o[1])>>,
           IF o[1] = "ok" THEN "none" ELSE ExcOf(o[1]))

txt2csv_command(ud, fs, o) ==
    Result(NewWorkflow(ud, "txt2csv", "waiting_file"), fs,
           <<Clear, ReplyText("welcome", o[1])>>,
           IF o[1] = "ok" THEN "none" ELSE ExcOf(o[1]))

\* a help command that answers nothing
HelpSilently(ud, fs, o) == Result(ud, fs, <<>>, "none")

help_command(ud, fs, o) == Last(ud, fs, ReplyText("help", o[1]))

cancel_command(ud, fs, o) ==
    Result(clear(ud), fs, <<Clear, ReplyText("cancelled", o[1])>>,
           IF o[1] = "ok" THEN "none" ELSE ExcOf(o[1]))

\* the Application's error handler: an exception that leaves a handler is
\* logged, and reported to the user unless it is TimedOut or NetworkError
error_handler(r, o) ==
    IF r.exc \in {"none", "TimedOut"} THEN r
    ELSE Result(r.ud, r.files,
                r.log \o <<ReplyText("error_handler", Drop(o, Calls(r.log))[1])>>, r.exc)

(***************************************************************************)
(* The updates a user can send.                                            *)
(***************************************************************************)
\* one conversation: the Session of a user is touched by that user's updates only
Users == {"u1"}

\* the texts a user types
TextInputs ==
    { <<"a", "b">>,                          \* a letter pair, lower case
      <<"1", "2">>,                          \* a digit pair
      <<"0", "0", "0", "1">>,                \* digit quads
      <<"0", "0", "0", "2">>,
      <<"²", "²", "²", "²">> }               \* four digits that are not decimal

\* the documents a user uploads
Documents ==
    { [file_id |-> "f1", file_name |-> <<"a", ".", "t", "x", "t">>, size |-> 20,
       lines |-> << <<"A", "B", " ", "-", " ", "5", " ", "-", " ", "x">>,
                    <<>>,
                    <<"b", "a", "d">> >>],
      [file_id |-> "f3", file_name |-> <<"c", ".", "c", "s", "v">>, size |-> 4,
       lines |-> << <<"A", "B", " ", "-", " ", "5">> >>],
      [file_id |-> "f4", file_name |-> <<"d", ".", "t", "x", "t">>,
       size |-> MaxFileSize + 1,
       lines |-> << <<"A", "B", " ", "-", " ", "5">> >>] }

\* the inline keyboards and the callback data of their buttons
Kinds == {"single", "batch", "csv"}

ButtonsOf(kind) ==
    IF kind = "single" THEN {"generate", "cancel_gen"}
    ELSE IF kind = "batch" THEN {"batch_generate", "cancel_gen"}
    ELSE {"csv_use_default", "csv_rename", "csv_cancel"}

(***************************************************************************)
(* The outcomes of the transport calls of one handler run, in the order of *)
(* the calls.  Only the outcomes of calls the handler makes matter, so the *)
(* outcomes past the last call are "ok".                                   *)
(***************************************************************************)
Failures == Outcomes \ {"ok"}

Oks(k) == [i \in 1..k |-> "ok"]

\* s and the outcome "ok" for n more calls
Fit(s, n) == s \o Oks(n)

\* the calls after a call has raised: the reply of an except block or of
\* safe_reply, and one more when that fails
FollowUps == {<<"ok", "ok">>} \cup {<<y, z>> : y \in Failures, z \in Outcomes}

\* the reply of the error handler
ErrorReply == {<<y>> : y \in Outcomes}

\* a handler whose n calls follow one another: all succeed, or one raises
\* and the calls of follow come after it
StraightOuts(n, follow) ==
    {Oks(n)} \cup {Fit(Oks(k) \o <<x>> \o f, n) :
                       k \in 0..(n - 1), x \in Failures, f \in follow}

\* the attempts of a retry loop that ends with the file sent or the budget
\* exhausted, and those ended by another error
Attempts == {<<"ok">>, <<"transient", "ok">>, <<"transient", "transient", "ok">>,
             <<"transient", "transient", "transient">>}
Broken == {<<"other">>, <<"transient", "other">>, <<"transient", "transient", "other">>}

\* a handler that makes pre calls, then delivers a file and reports
DeliveryOuts(pre, n, follow) ==
    {Fit(Oks(k) \o <<x>> \o f, n) : k \in 0..(pre - 1), x \in Failures, f \in follow}
    \cup {Fit(Oks(pre) \o d \o f, n) : d \in Broken, f \in follow}
    \cup {Fit(Oks(pre) \o d, n) : d \in Attempts}
    \cup {Fit(Oks(pre) \o d \o <<x>> \o f, n) :
              d \in Attempts, x \in Failures, f \in follow}

\* a command: its reply, the error handler's
CommandOuts == StraightOuts(1, ErrorReply)
\* a text: the reply of the step (safe_reply's two in the first step of
\* Single), safe_reply's two after an exception
TextOuts == StraightOuts(1, FollowUps)
\* a new name: the delivery, safe_reply's two after an exception
RenameOuts == DeliveryOuts(0, 6, FollowUps)
\* a document: five calls, the reply of the except block, the error handler's
DocumentOuts == StraightOuts(5, FollowUps)
\* a button: answer, one edit, the error handler's reply
ButtonOuts == StraightOuts(2, ErrorReply)
\* a button that delivers: answer, edit, the delivery, the error handler's reply
DeliveryButtonOuts == DeliveryOuts(2, 7, ErrorReply)

\* the keyboards sent by the messages of a log
Sent(log, kind) == Len(SelectSeq(log, LAMBDA e : e.markup = kind /\ e.res = "ok"))

\* edit_message_text replaces the message of the pressed button: its keyboard is gone
Edited(log) == \E i \in 1..Len(log) : log[i].op = "edit_message_text" /\ log[i].res = "ok"

\* the keyboards alive in a chat
Alive(kb) == kb["single"] + kb["batch"] + kb["csv"]

KeyboardsAfter(kb, log, pressed) ==
    [k \in Kinds |-> kb[k] + Sent(log, k) - (IF pressed = k /\ Edited(log) THEN 1 ELSE 0)]

\* the reply_document calls of a log
Attempted(log) == Len(SelectSeq(log, LAMBDA e : e.op = "reply_document"))

\* what the run told the user about a refused file, "none" when nothing
Refusal(log) ==
    LET told == SelectSeq(log, LAMBDA e : e.what \in {"invalid_type", "too_large"}
                                           /\ e.res = "ok")
    IN  IF told = <<>> THEN "none" ELSE told[1].what

\* the name under which the run sent a document, <<>> when it sent none
SentName(log) ==
    LET sent == SelectSeq(log, LAMBDA e : e.op = "reply_document" /\ e.res = "ok")
    IN  IF sent = <<>> THEN <<>> ELSE sent[1].name

\* what is remembered of the last handler run: how many times it tried to
\* send a document, under which name it sent it, whether it refused a file
Event(r) ==
    [attempts |-> Attempted(r.log), name |-> SentName(r.log), refused |-> Refusal(r.log)]

\* a command handler under the Application's error handler
CommandRun(command, ud, fs, o) ==
    error_handler(IF command = "start" THEN start_command(ud, fs, o)
                  ELSE IF command = "batch" THEN batch_command(ud, fs, o)
                  ELSE IF command = "txt2csv" THEN txt2csv_command(ud, fs, o)
                  ELSE IF command = "help" THEN help_command(ud, fs, o)
                  ELSE cancel_command(ud, fs, o), o)

\* whether the next text of the user is the new name of the converted file
Renaming(ud) ==
    Get(ud, "mode", "None") = "txt2csv" /\ Get(ud, "step", "None") = "waiting_rename"

\* the outcomes a text can meet
TextOutsFor(ud) == IF Renaming(ud) THEN RenameOuts ELSE TextOuts

\* whether a document is awaited
Awaited(ud) ==
    Get(ud, "mode", "None") = "txt2csv" /\ Get(ud, "step", "None") = "waiting_file"

\* the outcomes a document can meet
DocumentOutsFor(ud) == IF Awaited(ud) THEN DocumentOuts ELSE {Oks(2)}

DocumentRun(ud, fs, doc, o) == error_handler(handle_document(ud, fs, doc, o), o)

\* whether the button starts a delivery
Delivers(ud, data) ==
    \/ data = "generate" /\ Get(ud, "mode", "None") = "single"
    \/ data = "batch_generate" /\ Get(ud, "mode", "None") = "batch"
    \/ data = "csv_use_default" /\ Has(ud, "csv_file_path")

\* the outcomes a pressed button can meet
ButtonOutsFor(ud, data) == IF Delivers(ud, data) THEN DeliveryButtonOuts ELSE ButtonOuts

ButtonRun(ud, fs, data, o) == error_handler(button_callback(ud, fs, data, o), o)

\* one update of user u handled with result r; pressed is the kind of the
\* keyboard whose button was pressed ("none" for a message)
Handle(u, pressed, r) ==
    LET kb == KeyboardsAfter(keyboards[u], r.log, pressed)
    IN  /\ Alive(kb) <= MaxKeyboards
        /\ user_data' = [user_data EXCEPT ![u] = r.ud]
        /\ files' = r.files
        /\ keyboards' = [keyboards EXCEPT ![u] = kb]
        /\ run' = Event(r)

StartCommand(u) ==
    \E o \in CommandOuts : Handle(u, "none", CommandRun("start", user_data[u], files, o))

BatchCommand(u) ==
    \E o \in CommandOuts : Handle(u, "none", CommandRun("batch", user_data[u], files, o))

Txt2csvCommand(u) ==
    \E o \in CommandOuts : Handle(u, "none", CommandRun("txt2csv", user_data[u], files, o))

HelpCommand(u) ==
    \E o \in CommandOuts : Handle(u, "none", CommandRun("help", user_data[u], files, o))

CancelCommand(u) ==
    \E o \in CommandOuts : Handle(u, "none", CommandRun("cancel", user_data[u], files, o))

TextMessage(u) ==
    \E text \in TextInputs :
        \E o \in TextOutsFor(user_data[u]) :
            Handle(u, "none", handle_message(user_data[u], files, text, o))

DocumentMessage(u) ==
    \E doc \in Documents :
        \E o \in DocumentOutsFor(user_data[u]) :
            Handle(u, "none", DocumentRun(user_data[u], files, doc, o))

\* the buttons user u can press: those of the keyboards alive in the chat
Pressable(u) == UNION {ButtonsOf(kind) : kind \in {k \in Kinds : keyboards[u][k] > 0}}

ButtonPress(u) ==
    \E kind \in Kinds :
        /\ keyboards[u][kind] > 0
        /\ \E data \in ButtonsOf(kind) :
               \E o \in ButtonOutsFor(user_data[u], data) :
                   Handle(u, kind, ButtonRun(user_data[u], files, data, o))

UserNext(u) ==
    \/ StartCommand(u)
    \/ BatchCommand(u)
    \/ Txt2csvCommand(u)
    \/ HelpCommand(u)
    \/ CancelCommand(u)
    \/ TextMessage(u)
    \/ DocumentMessage(u)
    \/ ButtonPress(u)

NoFiles == [n \in {} |-> TextContent(<<>>)]

Init ==
    /\ user_data = [u \in Users |-> EmptyDict]
    /\ files = NoFiles
    /\ keyboards = [u \in Users |-> [k \in Kinds |-> 0]]
    /\ run = [attempts |-> 0]

Next == \E u \in Users : UserNext(u)

Spec == Init /\ [][Next]_vars

(***************************************************************************)
(* The generation and conversion functions on their own: they are called   *)
(* with arguments drawn from small sets, on a storage that holds nothing   *)
(* but what an earlier call on the same file names left.  run remembers    *)
(* the call and the pair it returned.                                      *)
(***************************************************************************)
FirstLetters == { <<"a", "b">>, <<"A", "b">> }

SecondNumbers == { <<"1", "2">> }

ThirdLetters == { <<"c", "d">>, <<"E", "F">> }

\* the start and end digits: 3 and 10 differ in their number of digits
FourDigits ==
    { <<"0", "0", "0", "1">>, <<"0", "0", "0", "3">>, <<"0", "0", "1", "0">> }

SeriesLists ==
    { <<>>,
      << <<"C", "D">> >>,
      << <<"C", "D">>, <<"E", "F">> >>,
      << <<"e", "f">>, <<"C", "D">> >>,
      << <<"C", "D">>, <<"C", "D">> >> }

\* the texts given to the converter that no generator wrote
SourceTexts ==
    { <<>>,                                                       \* no line
      << <<>> >>,                                                 \* a blank line
      << <<"b", "a", "d">>, <<" ">> >>,                           \* no record
      << <<"A", "B", " ", "-", " ", " ", "-", " ", "5">> >>,      \* no second part
      << <<"A", "B", "-", "5">> >>,                               \* a dash alone
      << <<"A", "B", "1", "2", "C", "D", "0", "0", "0", "1", " ", "-", " ",
           "5", "5", "5", " ", "-", " ", "e", "x", "t", "r", "a">>,
         <<>>,
         <<"b", "a", "d", " ", "l", "i", "n", "e">>,
         <<"X", "Y", "9", "9", "Z", "Z", "0", "0", "0", "2", " ", "-", " ",
           "7", "7", "7">> >>,
      << <<"A", " ", "-", " ", "5", " ", "-", " ", "x", " ", "-", " ", "y">>,
         <<"B", " ", "-", " ", "-", " ", "6">>,
         <<" ", "X", "Y", " ", " ", "-", " ", "7", "7", " ">> >> }

\* the numbers a subscriber may have
PhoneDigits == { <<"5">>, <<"5", "5", "5">> }

\* the lines '<identifier> - <digits>' of the identifiers
Paired(identifiers, digits) ==
    [i \in 1..Len(identifiers) |-> identifiers[i] \o <<" ", "-", " ">> \o digits]

\* the texts made of the identifiers a generation wrote
GeneratedTexts ==
    { Paired(generate_vehicle_numbers(NoFiles, f, s, t, a, b).files[
                 <<"vehicle_numbers_">> \o upper(f) \o s \o upper(t) \o <<".txt">>].lines, d) :
          <<f, s, t, a, b, d>> \in
              { x \in FirstLetters \X SecondNumbers \X ThirdLetters
                        \X FourDigits \X FourDigits \X PhoneDigits :
                    int(x[4]) <= int(x[5]) } }

InputPath == <<"input.txt">>

OutputPath == <<"output.csv">>

\* what run holds after a call
Call(name, first, second) ==
    [attempts |-> 0, call |-> name, returned |-> <<first, second>>]

\* the storage holds nothing but the files of these names
Only(fs, names) == DOMAIN fs \subseteq names

GenerateCall ==
    \E f \in FirstLetters, s \in SecondNumbers, t \in ThirdLetters :
        \E a \in FourDigits, b \in FourDigits :
            LET g == generate_vehicle_numbers(files, f, s, t, a, b)
            IN  /\ g.files = files \/ Only(g.files, {g.filename})
                /\ files' = g.files
                /\ run' = Call("generate_vehicle_numbers", g.filename, g.error)
                /\ UNCHANGED <<user_data, keyboards>>

BatchGenerateCall ==
    \E f \in FirstLetters, s \in SecondNumbers, l \in SeriesLists :
        \E a \in FourDigits, b \in FourDigits :
            LET g == generate_batch_vehicle_numbers(files, f, s, l, a, b)
            IN  /\ g.files = files \/ Only(g.files, {g.filename})
                /\ files' = g.files
                /\ run' = Call("generate_batch_vehicle_numbers", g.filename, g.error)
                /\ UNCHANGED <<user_data, keyboards>>

\* a text is stored and converted
ConvertCall ==
    \E lines \in SourceTexts :
        LET c == convert_txt_to_csv(WriteFile(files, InputPath, TextContent(lines)),
                                    InputPath, OutputPath)
        IN  /\ Only(c.files, {InputPath, OutputPath})
            /\ files' = c.files
            /\ run' = Call("convert_txt_to_csv", c.success, c.error)
            /\ UNCHANGED <<user_data, keyboards>>

\* the identifiers of a generated file are stored, each with a number, and
\* converted
RoundTripCall ==
    \E n \in DOMAIN files \ {InputPath, OutputPath}, d \in PhoneDigits :
        LET c == convert_txt_to_csv(
                     WriteFile(files, InputPath, TextContent(Paired(files[n].lines, d))),
                     InputPath, OutputPath)
        IN  /\ Only(files, {n})
            /\ files' = c.files
            /\ run' = Call("convert_txt_to_csv", c.success, c.error)
            /\ UNCHANGED <<user_data, keyboards>>

\* the caller removes what the calls left (os.remove after a delivery)
RemoveCall ==
    /\ files # NoFiles
    /\ files' = NoFiles
    /\ run' = Call("remove", TRUE, "")
    /\ UNCHANGED <<user_data, keyboards>>

FunctionsNext ==
    GenerateCall \/ BatchGenerateCall \/ ConvertCall \/ RoundTripCall \/ RemoveCall

FunctionsSpec == Init /\ [][FunctionsNext]_vars

(***************************************************************************)
(* The properties. A property about what a handler does is stated on the  *)
(* reachable states: whatever update the user sends next and whatever the  *)
(* transport calls do, the handler's result is as stated.                  *)
(***************************************************************************)
\* the texts the properties try in every state: those of TextInputs and
\* texts of other shapes
CheckedTexts ==
    TextInputs \cup
    { <<" ", "a", "b", " ">>,                \* a letter pair between blanks
      <<"a", "1">>,                          \* a letter and a digit
      <<"a", "b", "c">>,                     \* three letters
      <<"c", "d", ",", "e", "f">>,           \* two series
      <<"x", "/", "1">>,                     \* neither letters nor digits
      <<"0", "0", "0", "0">>,
      <<"1", "2", "3">> }

Mode(ud) == Get(ud, "mode", "None")
Step(ud) == Get(ud, "step", "None")

\* the steps of the Single and Batch workflows in their fixed order
Order(mode) ==
    IF mode = "single"
    THEN <<"first_letters", "second_numbers", "third_letters", "start_digits",
           "end_digits", "confirm">>
    ELSE <<"first_letters", "second_numbers", "series_list", "start_digits",
           "end_digits", "confirm">>

InOrder(mode, step) == \E i \in 1..6 : Order(mode)[i] = step

Position(mode, step) == CHOOSE i \in 1..6 : Order(mode)[i] = step

\* whether the text passes the validation of the step, the cross-field
\* check of end_digits included
Passes(ud, step, text) ==
    IF step \in {"first_letters", "third_letters"}
    THEN Len(upper(text)) = 2 /\ isalpha(upper(text))
    ELSE IF step = "second_numbers" THEN Len(text) = 2 /\ isdigit(text)
    ELSE IF step = "series_list" THEN ParseSeriesList(text) # <<>>
    ELSE IF step = "start_digits" THEN Len(text) = 4 /\ isdigit(text)
    ELSE IF step = "end_digits"
    THEN /\ Len(text) = 4 /\ isdigit(text)
         /\ Has(ud, "start_digits") /\ IntOk(ud["start_digits"]) /\ IntOk(text)
         /\ int(ud["start_digits"]) <= int(text)
    ELSE FALSE

\* C1: in the Single and Batch workflows a text moves the step only to its
\* immediate successor in the fixed order, and only when the text passes
\* the validation of the current step; no text skips a step, moves the step
\* backwards or changes the workflow.
C1_StepOrder ==
    \A u \in Users :
        LET ud == user_data[u]
        IN  Mode(ud) \in {"single", "batch"} /\ InOrder(Mode(ud), Step(ud)) =>
                \A text \in CheckedTexts : \A o \in TextOutsFor(ud) :
                    LET r == handle_message(ud, files, text, o)
                    IN  /\ Mode(r.ud) = Mode(ud)
                        /\ \/ Step(r.ud) = Step(ud)
                           \/ /\ InOrder(Mode(ud), Step(r.ud))
                              /\ Position(Mode(ud), Step(r.ud))
                                     = Position(Mode(ud), Step(ud)) + 1
                              /\ Passes(ud, Step(ud), strip(text))

\* a Batch session that went through all its steps to the confirmation
C1_Witness ==
    \E u \in Users :
        /\ Mode(user_data[u]) = "batch" /\ Step(user_data[u]) = "confirm"
        /\ \A k \in {"first_letters", "second_numbers", "series_list", "start_digits",
                      "end_digits"} : Has(user_data[u], k)

\* whether all characters of the text are decimal digits
AllDecimal(text) == \A i \in 1..Len(text) : text[i] \in DecimalChars

\* the shape rule of a step: a letter pair (as normalised), a digit pair, a
\* digit quad, a series list with a valid token
WellShaped(step, text) ==
    IF step \in {"first_letters", "third_letters"}
    THEN Len(upper(text)) = 2 /\ isalpha(upper(text))
    ELSE IF step = "second_numbers" THEN Len(text) = 2 /\ AllDecimal(text)
    ELSE IF step = "series_list" THEN ParseSeriesList(text) # <<>>
    ELSE Len(text) = 4 /\ AllDecimal(text)

\* C2: at every step of the Single and Batch workflows a text that violates
\* the shape rule of the step leaves the step and all fields of the Session
\* as they were.
C2_RejectedInputKeepsSession ==
    \A u \in Users :
        LET ud == user_data[u]
        IN  /\ Mode(ud) \in {"single", "batch"}
            /\ InOrder(Mode(ud), Step(ud)) /\ Step(ud) # "confirm"
            =>  \A text \in CheckedTexts : \A o \in TextOutsFor(ud) :
                    ~WellShaped(Step(ud), strip(text))
                        => handle_message(ud, files, text, o).ud = ud

\* C3: in Single and Batch the step is confirm only with
\* int(start_digits) <= int(end_digits) stored, and at end_digits a digit
\* quad below the stored start leaves the step at end_digits and stores no
\* end_digits.
C3_ConfirmOnlyInRange ==
    \A u \in Users :
        LET ud == user_data[u]
        IN  Mode(ud) \in {"single", "batch"} =>
              /\ Step(ud) = "confirm" =>
                     /\ Has(ud, "start_digits") /\ Has(ud, "end_digits")
                     /\ IntOk(ud["start_digits"]) /\ IntOk(ud["end_digits"])
                     /\ int(ud["start_digits"]) <= int(ud["end_digits"])
              /\ Step(ud) = "end_digits" /\ Has(ud, "start_digits")
                     /\ IntOk(ud["start_digits"]) =>
                     \A text \in CheckedTexts : \A o \in TextOutsFor(ud) :
                         LET t == strip(text)
                             r == handle_message(ud, files, text, o)
                         IN  /\ Len(t) = 4 /\ AllDecimal(t)
                             /\ int(ud["start_digits"]) > int(t)
                             =>  /\ Step(r.ud) = "end_digits"
                                 /\ ~Has(r.ud, "end_digits")
                                 /\ r.ud = ud

\* a Single session confirmed after a smaller end (0001 under the start
\* 0002) was turned down: the range stored is 0002 to 0002
C3_Witness ==
    \E u \in Users :
        /\ Mode(user_data[u]) = "single" /\ Step(user_data[u]) = "confirm"
        /\ user_data[u]["start_digits"] = <<"0", "0", "0", "2">>
        /\ user_data[u]["end_digits"] = <<"0", "0", "0", "2">>

\* the files the fields of a Session name: the converted output and the
\* downloaded input of a TextToTable run
SessionFiles(ud) == {ud[k] : k \in {"csv_file_path", "txt_file_path"} \cap DOMAIN ud}

\* the buttons that cancel
CancelButtons == {"cancel_gen", "csv_cancel"}

\* whether the button belongs to the workflow and the step of the Session
Applicable(ud, data) ==
    IF data = "generate" THEN Mode(ud) = "single" /\ Step(ud) = "confirm"
    ELSE IF data = "batch_generate" THEN Mode(ud) = "batch" /\ Step(ud) = "confirm"
    ELSE IF data = "cancel_gen"
    THEN Mode(ud) \in {"single", "batch"} /\ Step(ud) = "confirm"
    ELSE Mode(ud) = "txt2csv" /\ Step(ud) = "ask_rename"

\* the Session is discarded and none of its files is left
Discarded(ud, r) ==
    /\ r.ud = EmptyDict
    /\ \A f \in SessionFiles(ud) : ~Exists(r.files, f)

\* C4: the Cancel command, or a cancel button of the current step, issued
\* in any state of a workflow discards the Session and deletes every file
\* already made for it (the converted output and the downloaded input of a
\* TextToTable run at ask_rename or waiting_rename).
C4_CancelDeletesArtifacts ==
    \A u \in Users :
        LET ud == user_data[u]
        IN  Mode(ud) # "None" =>
              /\ \A o \in CommandOuts :
                     Discarded(ud, CommandRun("cancel", ud, files, o))
              /\ \A data \in Pressable(u) \cap CancelButtons :
                     Applicable(ud, data) =>
                         \A o \in ButtonOutsFor(ud, data) :
                             Discarded(ud, ButtonRun(ud, files, data, o))

\* a Session with only its workflow and the first step of it
Fresh(mode, step) == [k \in {"mode", "step"} |-> IF k = "mode" THEN mode ELSE step]

\* C5: in every state the Cancel command leaves a Session without workflow,
\* step or fields, and a workflow-start command leaves exactly that workflow
\* at its first step (first_letters for Single and Batch, waiting_file for
\* TextToTable) with no field of the earlier run.
C5_CancelAndStartReset ==
    \A u \in Users : \A o \in CommandOuts :
        LET ud == user_data[u]
        IN  /\ CommandRun("cancel", ud, files, o).ud = EmptyDict
            /\ CommandRun("start", ud, files, o).ud = Fresh("single", "first_letters")
            /\ CommandRun("batch", ud, files, o).ud = Fresh("batch", "first_letters")
            /\ CommandRun("txt2csv", ud, files, o).ud = Fresh("txt2csv", "waiting_file")

\* the Start command was issued in the middle of a Batch run: the
\* confirmation keyboard of that run is still in the chat, the Session is a
\* fresh Single one
C5_Witness ==
    \E u \in Users :
        /\ user_data[u] = Fresh("single", "first_letters")
        /\ keyboards[u]["batch"] > 0

\* the handler run changed neither the Session nor the storage
Ignored(ud, r) == r.ud = ud /\ r.files = files

\* C6: an event inapplicable to the current workflow and step changes
\* nothing: a text at waiting_file, ask_rename or confirm, a document when
\* the Session is not at (TextToTable, waiting_file), and a button of
\* another workflow or another step.
C6_InapplicableEventIgnored ==
    \A u \in Users :
        LET ud == user_data[u]
        IN  /\ Step(ud) \in {"waiting_file", "ask_rename", "confirm"} =>
                   \A text \in CheckedTexts : \A o \in TextOutsFor(ud) :
                       Ignored(ud, handle_message(ud, files, text, o))
            /\ ~Awaited(ud) =>
                   \A doc \in Documents : \A o \in DocumentOutsFor(ud) :
                       Ignored(ud, DocumentRun(ud, files, doc, o))
            /\ \A data \in Pressable(u) :
                   ~Applicable(ud, data) =>
                       \A o \in ButtonOutsFor(ud, data) :
                           Ignored(ud, ButtonRun(ud, files, data, o))

\* the send attempts of a handler run, in order
Sends(log) == SelectSeq(log, LAMBDA e : e.op = "reply_document")

\* how often a handler run removed the file, and how often it cleared
Removals(log, file) ==
    Len(SelectSeq(log, LAMBDA e : e.op = "remove" /\ e.file = file /\ e.res = "ok"))
Clears(log) == Len(SelectSeq(log, LAMBDA e : e.op = "clear"))

\* whether the run reported success to the user
Reported(log) == \E i \in 1..Len(log) : log[i].what = "success_report" /\ log[i].res = "ok"
ReportTried(log) == \E i \in 1..Len(log) : log[i].what = "success_report"

\* the buttons that start a delivery
DeliveryButtons == {"generate", "batch_generate", "csv_use_default"}

\* at most 3 attempts, each one but the last ended by a transient failure
BoundedRetry(log) ==
    /\ Len(Sends(log)) <= 3
    /\ \A i \in 1..(Len(Sends(log)) - 1) : Sends(log)[i].res = "transient"

\* C7: one delivery of a generation result or of a converted file makes at
\* most 3 send attempts, a further attempt only after a transient failure
\* (TimedOut or NetworkError); a send failure of another kind is not retried.
C7_BoundedRetry ==
    \A u \in Users :
        LET ud == user_data[u]
        IN  /\ run.attempts <= 3
            /\ \A data \in Pressable(u) : \A o \in ButtonOutsFor(ud, data) :
                   BoundedRetry(ButtonRun(ud, files, data, o).log)
            /\ Renaming(ud) =>
                   \A text \in CheckedTexts : \A o \in TextOutsFor(ud) :
                       BoundedRetry(handle_message(ud, files, text, o).log)

\* a delivery that used the whole budget
C7_Witness == run.attempts = 3

\* the file a run tried to send, and the input file that goes with it
Artifact(log) == Sends(log)[1].file
Temps(ud, log) ==
    {Artifact(log)} \cup (IF Artifact(log) \in SessionFiles(ud) THEN SessionFiles(ud) ELSE {})

\* the budget was exhausted on transient failures
Exhausted(log) ==
    /\ Len(Sends(log)) = 3
    /\ \A i \in 1..3 : Sends(log)[i].res = "transient"

\* what is due after exhaustion
ExhaustionHandled(ud, r) ==
    Exhausted(r.log) =>
        /\ \A f \in Temps(ud, r.log) :
               (Exists(files, f) => Removals(r.log, f) = 1) /\ ~Exists(r.files, f)
        /\ Clears(r.log) = 1 /\ r.ud = EmptyDict
        /\ ~ReportTried(r.log)

\* C8: when a delivery exhausts its retry budget on transient failures, the
\* artifact file and the input file are deleted and the Session is reset,
\* each exactly once in that handler run; no success report is sent and no
\* temp file of the Session is left in storage.
C8_ExhaustionCleansUpOnce ==
    \A u \in Users :
        LET ud == user_data[u]
        IN  /\ \A data \in Pressable(u) \cap DeliveryButtons :
                   \A o \in ButtonOutsFor(ud, data) :
                       ExhaustionHandled(ud, ButtonRun(ud, files, data, o))
            /\ Renaming(ud) =>
                   \A text \in CheckedTexts : \A o \in TextOutsFor(ud) :
                       ExhaustionHandled(ud, handle_message(ud, files, text, o))

\* the file was sent
Delivered(log) == \E i \in 1..Len(Sends(log)) : Sends(log)[i].res = "ok"

\* what is due after a successful send
SuccessHandled(ud, r) ==
    Delivered(r.log) =>
        /\ \A f \in Temps(ud, r.log) : ~Exists(r.files, f)
        /\ Reported(r.log)
        /\ r.ud = EmptyDict

\* C9: when a delivery succeeds, on the first or on a retried attempt, the
\* artifact file and the input file are deleted, a success report is sent
\* and the Session is reset: after the handler run the Session has no
\* workflow, step or fields.
C9_SuccessCleansUpAndResets ==
    \A u \in Users :
        LET ud == user_data[u]
        IN  /\ \A data \in Pressable(u) \cap DeliveryButtons :
                   \A o \in ButtonOutsFor(ud, data) :
                       SuccessHandled(ud, ButtonRun(ud, files, data, o))
            /\ Renaming(ud) =>
                   \A text \in CheckedTexts : \A o \in TextOutsFor(ud) :
                       SuccessHandled(ud, handle_message(ud, files, text, o))

\* once the artifact exists (the run tried to send it), none of the temp
\* files is left when the run ends
NoTempLeft(ud, r) ==
    Sends(r.log) # <<>> => \A f \in Temps(ud, r.log) : ~Exists(r.files, f)

\* C10: temp files are deleted on every exit path of the confirm/delivery
\* sub-phase: however a delivery handler ends once the artifact exists
\* (success, exhaustion, explicit cancel, a send failing with a
\* non-transient error, the notification of the user failing), no
\* generated, converted or downloaded file of the Session stays in storage.
C10_NoTempFileOnAnyExit ==
    \A u \in Users :
        LET ud == user_data[u]
        IN  /\ \A data \in Pressable(u) \cap DeliveryButtons :
                   \A o \in ButtonOutsFor(ud, data) :
                       NoTempLeft(ud, ButtonRun(ud, files, data, o))
            /\ Renaming(ud) =>
                   \A text \in CheckedTexts : \A o \in TextOutsFor(ud) :
                       NoTempLeft(ud, handle_message(ud, files, text, o))
            /\ Mode(ud) = "txt2csv" /\ Step(ud) \in {"ask_rename", "waiting_rename"} =>
                   /\ \A o \in CommandOuts :
                          \A f \in SessionFiles(ud) :
                              ~Exists(CommandRun("cancel", ud, files, o).files, f)
                   /\ "csv_cancel" \in Pressable(u) =>
                          \A o \in ButtonOutsFor(ud, "csv_cancel") :
                              \A f \in SessionFiles(ud) :
                                  ~Exists(ButtonRun(ud, files, "csv_cancel", o).files, f)

(***************************************************************************)
(* The properties of the generation and conversion functions, stated on    *)
(* the states of FunctionsSpec: whatever the next call and its arguments,  *)
(* the call returns and writes what is stated.                             *)
(***************************************************************************)
\* the number four decimal digits denote
Numeral(d) ==
    LET v(c) == CHOOSE k \in 0..9 : DigitSeq[k + 1] = c
    IN  1000 * v(d[1]) + 100 * v(d[2]) + 10 * v(d[3]) + v(d[4])

\* the last four characters of an identifier
Suffix(identifier) == SubSeq(identifier, Len(identifier) - 3, Len(identifier))

\* the arguments of a generation whose range is not empty
RangeArguments ==
    { x \in FirstLetters \X SecondNumbers \X ThirdLetters \X FourDigits \X FourDigits :
          Numeral(x[4]) <= Numeral(x[5]) }

\* the identifiers are those of the range start..end, in increasing order,
\* each one the upper-cased prefix, the code, the upper-cased series and the
\* number as four digits
SequenceOf(written, stem, first, last) ==
    /\ Len(written) = last - first + 1
    /\ \A i \in 1..Len(written) :
           /\ Len(written[i]) = Len(stem) + 4
           /\ SubSeq(written[i], 1, Len(stem)) = stem
           /\ Range(Suffix(written[i])) \subseteq DecimalChars
           /\ Numeral(Suffix(written[i])) = first + i - 1
    /\ \A i \in 1..(Len(written) - 1) :
           Numeral(Suffix(written[i + 1])) = Numeral(Suffix(written[i])) + 1

\* C11: for valid inputs with start <= end, generate_vehicle_numbers writes
\* exactly end - start + 1 identifiers, in strictly increasing suffix order
\* without gaps, each one the upper-cased prefix, the code, the upper-cased
\* series and the suffix zero-padded to four digits.
C11_SingleSequence ==
    \A x \in RangeArguments :
        LET g == generate_vehicle_numbers(files, x[1], x[2], x[3], x[4], x[5])
        IN  /\ g.exc = "none"
            /\ g.error = ""
            /\ Exists(g.files, g.filename)
            /\ SequenceOf(g.files[g.filename].lines,
                          upper(x[1]) \o x[2] \o upper(x[3]),
                          Numeral(x[4]), Numeral(x[5]))

\* a generation of AB12CD0003..AB12CD0010 has written its file
C11_Witness ==
    /\ "call" \in DOMAIN run
    /\ run.call = "generate_vehicle_numbers"
    /\ run.returned = << <<"vehicle_numbers_", "A", "B", "1", "2", "C", "D", ".txt">>, "" >>
    /\ Len(files[run.returned[1]].lines) = 8
    /\ files[run.returned[1]].lines[1] = <<"A", "B", "1", "2", "C", "D", "0", "0", "0", "3">>
    /\ files[run.returned[1]].lines[7] = <<"A", "B", "1", "2", "C", "D", "0", "0", "0", "9">>
    /\ files[run.returned[1]].lines[8] = <<"A", "B", "1", "2", "C", "D", "0", "0", "1", "0">>

\* the arguments of a generation whose start is above its end
ReversedArguments ==
    { x \in FirstLetters \X SecondNumbers \X FourDigits \X FourDigits :
          Numeral(x[3]) > Numeral(x[4]) }

\* the call returned an error and left the storage as it was
Refused(g, fs) ==
    /\ g.exc = "none"
    /\ g.filename = NoneStr
    /\ g.error # ""
    /\ g.files = fs

\* C12: for well-formed inputs with start > end, both generators return an
\* error and produce no artifact: no file is created or overwritten.
C12_ReversedRangeRefused ==
    \A x \in ReversedArguments :
        /\ \A t \in ThirdLetters :
               Refused(generate_vehicle_numbers(files, x[1], x[2], t, x[3], x[4]), files)
        /\ \A l \in SeriesLists :
               Refused(generate_batch_vehicle_numbers(files, x[1], x[2], l, x[3], x[4]), files)

\* a batch generation was refused for its range while the file of an earlier
\* batch generation, which has the same name, is in the storage
C12_Witness ==
    /\ "call" \in DOMAIN run
    /\ run.call = "generate_batch_vehicle_numbers"
    /\ run.returned = <<NoneStr, "Start digits must be less than or equal to end digits">>
    /\ Exists(files, <<"vehicle_numbers_batch_", "A", "B", "1", "2", ".txt">>)

\* the arguments of a batch generation whose range is not empty
BatchArguments ==
    { x \in FirstLetters \X SecondNumbers \X FourDigits \X FourDigits :
          Numeral(x[3]) <= Numeral(x[4]) }

\* the lines generate_vehicle_numbers writes for one series
SingleLines(fs, x, series) ==
    LET g == generate_vehicle_numbers(fs, x[1], x[2], series, x[3], x[4])
    IN  g.files[g.filename].lines

\* written is the sequences of the series of l, each of n lines, one after
\* the other in the order of l
Concatenated(written, fs, x, l, n) ==
    /\ Len(written) = n * Len(l)
    /\ \A k \in 1..Len(l) :
           SubSeq(written, (k - 1) * n + 1, k * n) = SingleLines(fs, x, l[k])

CD0001EF0003 ==
    << <<"A", "B", "1", "2", "C", "D", "0", "0", "0", "1">>,
       <<"A", "B", "1", "2", "C", "D", "0", "0", "0", "2">>,
       <<"A", "B", "1", "2", "C", "D", "0", "0", "0", "3">>,
       <<"A", "B", "1", "2", "E", "F", "0", "0", "0", "1">>,
       <<"A", "B", "1", "2", "E", "F", "0", "0", "0", "2">>,
       <<"A", "B", "1", "2", "E", "F", "0", "0", "0", "3">> >>

\* C13: for a non-empty series list the batch generator writes the
\* single-series sequences of the series one after the other in the order of
\* the list, (end - start + 1) * |list| identifiers in all ([CD, EF] over
\* 0001..0003 gives CD0001..CD0003 and then EF0001..EF0003); an empty series
\* list fails with an error and writes no file.
C13_BatchConcatenation ==
    /\ \A x \in BatchArguments :
           \A l \in SeriesLists \ {<<>>} :
               LET g == generate_batch_vehicle_numbers(files, x[1], x[2], l, x[3], x[4])
               IN  /\ g.exc = "none"
                   /\ g.error = ""
                   /\ Exists(g.files, g.filename)
                   /\ Concatenated(g.files[g.filename].lines, files, x, l,
                                   Numeral(x[4]) - Numeral(x[3]) + 1)
    /\ LET g == generate_batch_vehicle_numbers(files, <<"a", "b">>, <<"1", "2">>,
                                               << <<"C", "D">>, <<"E", "F">> >>,
                                               <<"0", "0", "0", "1">>, <<"0", "0", "0", "3">>)
       IN  g.files[g.filename].lines = CD0001EF0003
    /\ \A f \in FirstLetters, s \in SecondNumbers, a \in FourDigits, b \in FourDigits :
           Refused(generate_batch_vehicle_numbers(files, f, s, <<>>, a, b), files)

\* a batch generation of [CD, EF] over 0001..0003 has written its file
C13_Witness ==
    /\ "call" \in DOMAIN run
    /\ run.call = "generate_batch_vehicle_numbers"
    /\ run.returned = << <<"vehicle_numbers_batch_", "A", "B", "1", "2", ".txt">>, "" >>
    /\ files[run.returned[1]].lines = CD0001EF0003

(***************************************************************************)
(* The properties of the series list, of the conversion and of the         *)
(* uploaded file.                                                          *)
(***************************************************************************)
\* the texts tried at the series_list step
SeriesTexts ==
    { <<"c", "d", ",", "e", "f">>,
      <<"c", "d", " ", "e", "f">>,
      <<"e", "f", ",", " ", "c", "d">>,
      <<"c", "d", ",", "x", "1", ",", "e", "f">>,     \* an invalid token
      <<"c", "d", ",", "c", "d">>,                    \* the same series twice
      <<"c", "d", " ", "C", "D", " ", "e", "f">>,
      <<"x", "1", ",", "a", "b", "c">>,               \* no valid token
      <<"a", "b">> }

\* the tokens of a text delimited by commas or blanks
RECURSIVE Tokens(_, _)
Tokens(t, cur) ==
    IF t = <<>> THEN (IF cur = <<>> THEN <<>> ELSE <<cur>>)
    ELSE IF Head(t) \in {",", " "}
    THEN (IF cur = <<>> THEN <<>> ELSE <<cur>>) \o Tokens(Tail(t), <<>>)
    ELSE Tokens(Tail(t), Append(cur, Head(t)))

\* the elements of l, each one once, in the order of their first occurrence
RECURSIVE Distinct(_, _)
Distinct(l, seen) ==
    IF l = <<>> THEN <<>>
    ELSE IF Head(l) \in seen THEN Distinct(Tail(l), seen)
    ELSE <<Head(l)>> \o Distinct(Tail(l), seen \cup {Head(l)})

\* the series a text names: its letter-pair tokens, upper-cased, each once
SeriesOf(text) ==
    Distinct(SelectSeq(Tokens(upper(text), <<>>),
                       LAMBDA token : Len(token) = 2 /\ Range(token) \subseteq AlphaChars),
             {})

\* C14: at the series_list step of the Batch workflow the stored list is the
\* letter-pair tokens of the comma- or whitespace-delimited text, upper-cased
\* and in input order, duplicates and invalid tokens dropped; the text is
\* rejected only when that list is empty, so the stored list never contains
\* the same series twice.
C14_SeriesListDistinct ==
    \A u \in Users :
        LET ud == user_data[u]
        IN  Mode(ud) = "batch" /\ Step(ud) = "series_list"
            =>  \A text \in SeriesTexts : \A o \in TextOutsFor(ud) :
                    LET r == handle_message(ud, files, text, o)
                    IN  IF SeriesOf(text) = <<>>
                        THEN r.ud = ud
                        ELSE /\ Step(r.ud) = "start_digits"
                             /\ Get(r.ud, "series_list", NoneStr) = SeriesOf(text)

\* s without its leading and trailing blanks
Trimmed(s) ==
    LET filled == {i \in 1..Len(s) : s[i] # " "}
    IN  IF filled = {} THEN <<>>
        ELSE SubSeq(s, CHOOSE i \in filled : \A j \in filled : i <= j,
                       CHOOSE i \in filled : \A j \in filled : j <= i)

\* the places of t where ' - ' starts
Dashes(t) ==
    {i \in 1..(Len(t) - 2) : t[i] = " " /\ t[i + 1] = "-" /\ t[i + 2] = " "}

\* t before its first ' - ', and t after it
Before(t) == SubSeq(t, 1, (CHOOSE i \in Dashes(t) : \A j \in Dashes(t) : i <= j) - 1)
After(t) == SubSeq(t, (CHOOSE i \in Dashes(t) : \A j \in Dashes(t) : i <= j) + 3, Len(t))

\* the first segment of a trimmed line with a separator, and its second
\* segment, which ends at the second separator
FirstSegment(t) == Trimmed(Before(t))
SecondSegment(t) ==
    Trimmed(IF Dashes(After(t)) = {} THEN After(t) ELSE Before(After(t)))

\* the line is retained
Retained(line) ==
    LET t == Trimmed(line)
    IN  /\ Dashes(t) # {}
        /\ FirstSegment(t) # <<>>
        /\ SecondSegment(t) # <<>>

\* the records of the retained lines: secondary value, then primary value
Records(lines) ==
    LET kept == SelectSeq(lines, Retained)
    IN  [i \in 1..Len(kept) |->
             <<SecondSegment(Trimmed(kept[i])), FirstSegment(Trimmed(kept[i]))>>]

FourLines ==
    << <<"A", "B", "1", "2", "C", "D", "0", "0", "0", "1", " ", "-", " ",
         "5", "5", "5", " ", "-", " ", "e", "x", "t", "r", "a">>,
       <<>>,
       <<"b", "a", "d", " ", "l", "i", "n", "e">>,
       <<"X", "Y", "9", "9", "Z", "Z", "0", "0", "0", "2", " ", "-", " ", "7", "7", "7">> >>

TwoRecords ==
    << << <<"5", "5", "5">>, <<"A", "B", "1", "2", "C", "D", "0", "0", "0", "1">> >>,
       << <<"7", "7", "7">>, <<"X", "Y", "9", "9", "Z", "Z", "0", "0", "0", "2">> >> >>

\* the conversion of a stored text
Conversion(fs, lines) ==
    convert_txt_to_csv(WriteFile(fs, InputPath, TextContent(lines)), InputPath, OutputPath)

\* C15: convert_txt_to_csv writes the header (Number, Vehicle Number) and
\* then one row (secondary, primary) per retained line in input order; a line
\* is retained exactly when, trimmed, it contains ' - ' and its first and
\* second segments are non-empty after trimming; what follows a second ' - '
\* is ignored.  The four lines 'AB12CD0001 - 555 - extra', '', 'bad line',
\* 'XY99ZZ0002 - 777' give exactly two records.
C15_ConvertedRows ==
    /\ \A lines \in (SourceTexts \cup GeneratedTexts) \ {<<>>} :
           Conversion(files, lines).files[OutputPath].lines = <<CsvHeader>> \o Records(lines)
    /\ Conversion(files, FourLines).files[OutputPath].lines = <<CsvHeader>> \o TwoRecords

\* the four lines have been converted to their two records
C15_Witness ==
    /\ "call" \in DOMAIN run
    /\ run.call = "convert_txt_to_csv"
    /\ run.returned = <<TRUE, "">>
    /\ files[InputPath].lines = FourLines
    /\ files[OutputPath].lines = <<CsvHeader>> \o TwoRecords

\* C16: an input of zero lines fails with the empty-input error; an input
\* that has lines but no retained record fails with the no-valid-records
\* error, which is another one; neither reports success.
C16_EmptyAndNoRecords ==
    /\ LET c == Conversion(files, <<>>)
       IN  ~c.success /\ c.error = "The TXT file is empty"
    /\ \A lines \in (SourceTexts \cup GeneratedTexts) \ {<<>>} :
           LET c == Conversion(files, lines)
           IN  IF Records(lines) = <<>>
               THEN ~c.success /\ c.error = "No valid data found"
               ELSE c.success /\ c.error = ""

\* a text that has lines but no record has been refused
C16_Witness ==
    /\ "call" \in DOMAIN run
    /\ run.call = "convert_txt_to_csv"
    /\ run.returned = <<FALSE, "No valid data found">>
    /\ files[InputPath].lines # <<>>
    /\ Records(files[InputPath].lines) = <<>>

\* C17: the identifiers generate_vehicle_numbers writes, each written as
\* '<identifier> - <digits>' and given to convert_txt_to_csv, come back as
\* one record per identifier, in the same order, the identifier in the
\* second column.
C17_RoundTrip ==
    \A x \in RangeArguments : \A d \in PhoneDigits :
        LET g == generate_vehicle_numbers(files, x[1], x[2], x[3], x[4], x[5])
            identifiers == g.files[g.filename].lines
            c == Conversion(g.files, Paired(identifiers, d))
        IN  /\ c.success
            /\ c.files[OutputPath].lines =
                   <<CsvHeader>> \o [i \in 1..Len(identifiers) |-> <<d, identifiers[i]>>]

\* the file of AB12CD0001..AB12CD0003 has been written with the number 555
\* on each line and converted
C17_Witness ==
    LET name == <<"vehicle_numbers_", "A", "B", "1", "2", "C", "D", ".txt">>
    IN  /\ "call" \in DOMAIN run
        /\ run.call = "convert_txt_to_csv"
        /\ run.returned = <<TRUE, "">>
        /\ Exists(files, name)
        /\ files[name].lines = SubSeq(CD0001EF0003, 1, 3)
        /\ files[InputPath].lines = Paired(files[name].lines, <<"5", "5", "5">>)
        /\ files[OutputPath].lines =
               <<CsvHeader>> \o [i \in 1..3 |-> << <<"5", "5", "5">>, files[name].lines[i] >>]

\* the documents tried at the waiting_file step
CheckedDocuments ==
    Documents \cup
    { [file_id |-> "f5", file_name |-> <<"e">>, size |-> 1,
       lines |-> << <<"A", "B", " ", "-", " ", "5">> >>],
      [file_id |-> "f6", file_name |-> <<"g", ".", "c", "s", "v">>,
       size |-> 50 * 1024 * 1024 + 1,
       lines |-> << <<"A", "B", " ", "-", " ", "5">> >>],
      [file_id |-> "f7", file_name |-> <<"h", ".", "t", "x", "t">>,
       size |-> 50 * 1024 * 1024 + 1,
       lines |-> << <<"A", "B", " ", "-", " ", "5">> >>],
      [file_id |-> "f8", file_name |-> <<"i", ".", "t", "x", "t">>, size |-> 0,
       lines |-> <<>>],
      [file_id |-> "f9", file_name |-> <<"j", ".", "t", "x", "t">>, size |-> 9,
       lines |-> << <<"b", "a", "d">>, <<>>, <<"A", "B", "-", "5">> >>] }

\* the name does not end with .txt, or the size exceeds 50 MiB
Oversized(doc) == doc.size > 50 * 1024 * 1024
WrongType(doc) ==
    \/ Len(doc.file_name) < 4
    \/ SubSeq(doc.file_name, Len(doc.file_name) - 3, Len(doc.file_name)) # <<".", "t", "x", "t">>

\* a transport call of the run raised
Failed(log) == \E i \in 1..Len(log) : log[i].res \in Failures

\* C18: at the waiting_file step of TextToTable a file whose name does not
\* end with .txt, or whose size exceeds 50 MiB, is rejected with a re-prompt
\* and without state advance: the step stays waiting_file, no artifact
\* reference is stored and no downloaded file is left in storage.  (When a
\* transport call of the handler raises, the Session is either left as it
\* was or discarded as after any unclassified error; it does not advance.)
C18_RefusedFileKeepsStep ==
    \A u \in Users :
        LET ud == user_data[u]
        IN  Awaited(ud)
            =>  \A doc \in {d \in CheckedDocuments : WrongType(d) \/ Oversized(d)} :
                    \A o \in DocumentOutsFor(ud) :
                        LET r == DocumentRun(ud, files, doc, o)
                        IN  /\ r.files = files
                            /\ ~Exists(r.files, TempPath(doc.file_id))
                            /\ ~Has(r.ud, "csv_file_path")
                            /\ ~Has(r.ud, "txt_file_path")
                            /\ r.ud \in {ud, EmptyDict}
                            /\ ~Failed(r.log)
                               =>  /\ r.ud = ud
                                   /\ Step(r.ud) = "waiting_file"
                                   /\ Refusal(r.log) =
                                          (IF WrongType(doc) THEN "invalid_type"
                                           ELSE "too_large")

\* a file of more than 50 MiB has been refused and the Session still waits
\* for a file, with nothing of the refused file in storage
C18_Witness ==
    \E u \in Users :
        /\ "refused" \in DOMAIN run
        /\ run.refused = "too_large"
        /\ Awaited(user_data[u])
        /\ ~Has(user_data[u], "txt_file_path")
        /\ \A doc \in Documents : ~Exists(files, TempPath(doc.file_id))

\* the texts tried at the waiting_rename step
RenameTexts ==
    TextInputs \cup
    { <<>>,
      <<" ">>,
      <<"a", "/", "b">>,
      <<"<", ">", ":", "\"", "/", "\\", "|", "?", "*">>,
      <<"a", ":", "b", ".", "c", "s", "v">>,
      <<"a", ".", "C", "s", "V">>,
      <<"c", "s", "v">>,
      <<" ", "a", "?", " ">> }

\* the nine characters a delivery name must not contain
Forbidden == {"<", ">", ":", "\"", "/", "\\", "|", "?", "*"}

\* the name ends with .csv, whatever the case of its letters
CarriesCsv(name) ==
    /\ Len(name) >= 4
    /\ name[Len(name) - 3] = "."
    /\ name[Len(name) - 2] \in {"c", "C"}
    /\ name[Len(name) - 1] \in {"s", "S"}
    /\ name[Len(name)] \in {"v", "V"}

\* the delivery name of a text
NameOf(text) ==
    LET replaced == [i \in 1..Len(text) |-> IF text[i] \in Forbidden THEN "_" ELSE text[i]]
    IN  IF CarriesCsv(replaced) THEN replaced ELSE replaced \o <<".", "c", "s", "v">>

\* the outcomes tried with a text: every outcome of the replies for an
\* empty name, every course of the attempts to send for another one
NameOuts(text) ==
    IF Trimmed(text) = <<>> THEN RenameOuts
    ELSE {Fit(d, 6) : d \in Attempts \cup Broken}

\* the names under which the run tried to send a document
TriedNames(log) == {log[i].name : i \in {j \in 1..Len(log) : log[j].op = "reply_document"}}

\* C19: at the waiting_rename step the delivery name is the text with each
\* of the characters < > : " / \ | ? * replaced by '_' and with '.csv'
\* appended unless it already ends in '.csv' case-insensitively, so the
\* delivered name contains none of those characters and always carries the
\* .csv extension; an empty name re-prompts and leaves the step at
\* waiting_rename with the artifact kept.
C19_DeliveryName ==
    \A u \in Users :
        LET ud == user_data[u]
        IN  Renaming(ud) /\ Has(ud, "csv_file_path")
            =>  \A text \in RenameTexts : \A o \in NameOuts(text) :
                    LET r == handle_message(ud, files, text, o)
                    IN  IF Trimmed(text) = <<>>
                        THEN /\ r.ud = ud
                             /\ r.files = files
                             /\ TriedNames(r.log) = {}
                             /\ r.log # <<>>
                             /\ \A i \in 1..Len(r.log) :
                                    r.log[i].op = "reply_text" => r.log[i].what = "invalid"
                        ELSE /\ TriedNames(r.log) \subseteq {NameOf(Trimmed(text))}
                             /\ \A name \in TriedNames(r.log) :
                                    /\ Range(name) \cap Forbidden = {}
                                    /\ CarriesCsv(name)
                             /\ Exists(files, ud["csv_file_path"]) => TriedNames(r.log) # {}

\* the converted file has been delivered under the name ab.csv made of the
\* text 'ab'
C19_Witness ==
    /\ "name" \in DOMAIN run
    /\ run.name = <<"a", "b", ".", "c", "s", "v">>
    /\ \A u \in Users : user_data[u] = EmptyDict

\* the Generator or the Converter returned a failure to the run
FailureReturned(log) ==
    \E i \in 1..Len(log) : log[i].op \in {"generate", "convert"} /\ log[i].res = "error"

\* the explanations of a failure the run gave to the user
Explanations(log) ==
    Len(SelectSeq(log, LAMBDA e : e.what \in {"generation_error", "conversion_failed"}
                                   /\ e.res = "ok"))

\* the run of a handler in which no transport call raised ends, after a
\* returned failure, with the Session reset and one explanation
ResetsOnFailure(r) ==
    FailureReturned(r.log) /\ ~Failed(r.log)
    =>  /\ r.ud = EmptyDict
        /\ Explanations(r.log) = 1

\* C20: whenever the Generator or the Converter returns a failure to the
\* Controller, the Controller resets the Session and emits a single
\* user-facing explanation.
C20_FailureResetsSession ==
    \A u \in Users :
        LET ud == user_data[u]
        IN  /\ \A doc \in CheckedDocuments : \A o \in DocumentOutsFor(ud) :
                   ResetsOnFailure(DocumentRun(ud, files, doc, o))
            /\ \A data \in Pressable(u) : \A o \in ButtonOutsFor(ud, data) :
                   ResetsOnFailure(ButtonRun(ud, files, data, o))

\* the messages and documents a handler run sent to the user
Outbound(log) ==
    Len(SelectSeq(log, LAMBDA e : e.op \in {"reply_text", "edit_message_text",
                                            "reply_document"} /\ e.res = "ok"))

InputStep(ud) ==
    \/ Mode(ud) \in {"single", "batch"} /\ InOrder(Mode(ud), Step(ud)) /\ Step(ud) # "confirm"
    \/ Renaming(ud)

FailedRemovals(log) == {i \in 1..Len(log) : log[i].op = "remove" /\ log[i].res # "ok"}

\* the run told the user of an error after position i
ErrorToldAfter(log, i) ==
    \E j \in (i + 1)..Len(log) :
        log[j].what \in {"error", "error_handler", "safe_reply_error"} /\ log[j].res = "ok"

\* every failed deletion of the run was swallowed: no error message follows
\* it and the rest of the cleanup left none of the files in temps
Swallowed(r, temps) ==
    \A i \in FailedRemovals(r.log) :
        /\ ~ErrorToldAfter(r.log, i)
        /\ \A f \in temps : ~Exists(r.files, f)

\* the files the run for a document made: the input it downloaded and the
\* output of the conversion it started
Made(log, doc) ==
    {TempPath(doc.file_id) : i \in {j \in 1..Len(log) : log[j].op = "download_to_drive"
                                                         /\ log[j].res = "ok"}}
    \cup {ConvertedPath(doc.file_id) : i \in {j \in 1..Len(log) : log[j].op = "convert"}}

\* C22: a failure to delete a temp file during cleanup is swallowed on
\* every path: no user-visible error message follows it and the rest of the
\* handler (the remaining cleanup, the report, the Session reset) goes on
\* as if the deletion had succeeded.
C22_DeletionFailureSwallowed ==
    \A u \in Users :
        LET ud == user_data[u]
        IN  /\ \A doc \in CheckedDocuments : \A o \in DocumentOutsFor(ud) :
                   Swallowed(DocumentRun(ud, files, doc, o),
                             Made(DocumentRun(ud, files, doc, o).log, doc))
            /\ \A text \in CheckedTexts : \A o \in TextOutsFor(ud) :
                   Swallowed(handle_message(ud, files, text, o), SessionFiles(ud))
            /\ \A data \in Pressable(u) : \A o \in ButtonOutsFor(ud, data) :
                   Swallowed(ButtonRun(ud, files, data, o), SessionFiles(ud))

\* the steps of the TextToTable workflow
Txt2csvSteps == {"waiting_file", "ask_rename", "waiting_rename"}

\* C23: in every reachable state the (workflow, step) pair is valid: a
\* Single or Batch Session is at one of the six steps of its order, a
\* TextToTable Session at waiting_file, ask_rename or waiting_rename, and a
\* Session with no workflow has no step.
C23_ValidWorkflowStep ==
    \A u \in Users :
        LET ud == user_data[u]
        IN  IF Mode(ud) \in {"single", "batch"} THEN InOrder(Mode(ud), Step(ud))
            ELSE IF Mode(ud) = "txt2csv" THEN Step(ud) \in Txt2csvSteps
            ELSE Mode(ud) = "None" /\ ~Has(ud, "step")

\* the run called a generator
Invoked(log) == \E i \in 1..Len(log) : log[i].op = "generate"

\* the five fields of the workflow are present and pass the rules of
\* their steps, with start <= end
FiveValidFields(ud) ==
    /\ \A k \in {"first_letters", "second_numbers", "start_digits", "end_digits"} : Has(ud, k)
    /\ Has(ud, IF Mode(ud) = "single" THEN "third_letters" ELSE "series_list")
    /\ Len(ud["first_letters"]) = 2 /\ isalpha(ud["first_letters"])
    /\ Len(ud["second_numbers"]) = 2 /\ AllDecimal(ud["second_numbers"])
    /\ IF Mode(ud) = "single"
       THEN Len(ud["third_letters"]) = 2 /\ isalpha(ud["third_letters"])
       ELSE /\ ud["series_list"] # <<>>
            /\ \A i \in 1..Len(ud["series_list"]) :
                   Len(ud["series_list"][i]) = 2 /\ isalpha(ud["series_list"][i])
    /\ Len(ud["start_digits"]) = 4 /\ AllDecimal(ud["start_digits"])
    /\ Len(ud["end_digits"]) = 4 /\ AllDecimal(ud["end_digits"])
    /\ int(ud["start_digits"]) <= int(ud["end_digits"])

\* C24: a generator is invoked only by the affirmative button (generate for
\* Single, batch_generate for Batch) pressed while the Session is at the
\* confirm step of the matching workflow, so every invocation receives
\* five present, validated fields with start <= end; the button pressed at
\* an earlier step, and every other event, invokes nothing.
C24_GeneratorOnlyAtConfirm ==
    \A u \in Users :
        LET ud == user_data[u]
        IN  /\ \A data \in Pressable(u) : \A o \in ButtonOutsFor(ud, data) :
                   Invoked(ButtonRun(ud, files, data, o).log) =>
                       /\ data \in {"generate", "batch_generate"}
                       /\ Applicable(ud, data)
                       /\ FiveValidFields(ud)
            /\ \A text \in CheckedTexts : \A o \in TextOutsFor(ud) :
                   ~Invoked(handle_message(ud, files, text, o).log)
            /\ \A doc \in CheckedDocuments : \A o \in DocumentOutsFor(ud) :
                   ~Invoked(DocumentRun(ud, files, doc, o).log)

\* the run tried to send a converted file
CsvSendTried(log) ==
    \E i \in 1..Len(log) :
        log[i].op = "reply_document" /\ log[i].file # <<>> /\ log[i].file[1] = "converted_"

\* the run converted a file with success
ConvertedOk(log) == \E i \in 1..Len(log) : log[i].op = "convert" /\ log[i].res = "ok"

At(ud, step) == Mode(ud) = "txt2csv" /\ Step(ud) = step

\* what a run that is neither the accepted upload, nor the rename choice,
\* nor a delivery may do: it enters neither ask_rename nor waiting_rename
\* and sends no converted file
NoTxt2csvMove(ud, r) ==
    /\ Step(r.ud) = "ask_rename" => Step(ud) = "ask_rename"
    /\ Step(r.ud) = "waiting_rename" => Step(ud) = "waiting_rename"
    /\ ~CsvSendTried(r.log)

\* C25: TextToTable follows waiting_file -> ask_rename -> {waiting_rename ->
\* delivered | delivered}: the step becomes ask_rename only by a file
\* accepted at waiting_file and converted with success, becomes
\* waiting_rename only by the rename choice made at ask_rename, and the
\* converted file is sent only from ask_rename (default name) or from
\* waiting_rename (custom name).
C25_Txt2csvOrder ==
    \A u \in Users :
        LET ud == user_data[u]
        IN  /\ \A c \in {"start", "batch", "txt2csv", "help", "cancel"} :
                   \A o \in CommandOuts : NoTxt2csvMove(ud, CommandRun(c, ud, files, o))
            /\ \A doc \in CheckedDocuments : \A o \in DocumentOutsFor(ud) :
                   LET r == DocumentRun(ud, files, doc, o)
                   IN  /\ Step(r.ud) = "ask_rename" /\ Step(ud) # "ask_rename" =>
                              At(ud, "waiting_file") /\ ConvertedOk(r.log)
                       /\ Step(r.ud) = "waiting_rename" => Step(ud) = "waiting_rename"
                       /\ ~CsvSendTried(r.log)
            /\ \A text \in CheckedTexts : \A o \in TextOutsFor(ud) :
                   LET r == handle_message(ud, files, text, o)
                   IN  /\ Step(r.ud) = "ask_rename" => Step(ud) = "ask_rename"
                       /\ Step(r.ud) = "waiting_rename" => Step(ud) = "waiting_rename"
                       /\ CsvSendTried(r.log) => At(ud, "waiting_rename")
            /\ \A data \in Pressable(u) : \A o \in ButtonOutsFor(ud, data) :
                   LET r == ButtonRun(ud, files, data, o)
                   IN  /\ Step(r.ud) = "ask_rename" => Step(ud) = "ask_rename"
                       /\ Step(r.ud) = "waiting_rename" /\ Step(ud) # "waiting_rename" =>
                              data = "csv_rename" /\ At(ud, "ask_rename")
                       /\ CsvSendTried(r.log) =>
                              data = "csv_use_default" /\ At(ud, "ask_rename")

\* the keys of the artifact reference: the two paths, the record count
\* and the size
ArtifactKeys == {"csv_file_path", "txt_file_path", "line_count", "file_size_mb"}

\* C26: the Session holds an artifact reference (csv_file_path,
\* txt_file_path, the record count, the size) only while the workflow is
\* TextToTable and the step is ask_rename or waiting_rename; in every other
\* reachable state it holds none.
C26_ArtifactOnlyWhileRenaming ==
    \A u \in Users :
        LET ud == user_data[u]
        IN  ArtifactKeys \cap DOMAIN ud # {} =>
                Mode(ud) = "txt2csv" /\ Step(ud) \in {"ask_rename", "waiting_rename"}

\* a TextToTable session at waiting_rename that holds the whole reference
C26_Witness ==
    \E u \in Users :
        /\ At(user_data[u], "waiting_rename")
        /\ ArtifactKeys \subseteq DOMAIN user_data[u]
        /\ Exists(files, user_data[u]["csv_file_path"])

(***************************************************************************)
(* Unclassified errors, the default file name and the files left by a new  *)
(* workflow.                                                               *)
(***************************************************************************)
\* the outcome vectors with no transient failure and at most one other
\* failure: whatever is raised is an unclassified error, and the message
\* that reports it can be sent
OneError(outs) ==
    {o \in outs : /\ \A i \in 1..Len(o) : o[i] # "transient"
                  /\ Cardinality({i \in 1..Len(o) : o[i] = "other"}) <= 1}

\* the generic messages: of the except blocks and of the error handler
GenericTold(log) ==
    \E i \in 1..Len(log) : log[i].what \in {"error", "error_handler"} /\ log[i].res = "ok"

\* an exception was raised in the run: it left the handler, or an except
\* block answered it
Raised(r) ==
    \/ r.exc # "none"
    \/ \E i \in 1..Len(r.log) : r.log[i].what \in {"error", "error_handler"}

\* the run that raised told the user and reset the Session
ReportedAndReset(r) == Raised(r) => GenericTold(r.log) /\ r.ud = EmptyDict

\* C28: an unclassified error raised while a text, a button or a file is
\* handled (not a validation failure of a step, not a retried transient
\* send failure) results in a generic user-visible message and a reset
\* Session: after the handler the Session has no workflow, step or fields.
C28_UnclassifiedErrorResets ==
    \A u \in Users :
        LET ud == user_data[u]
        IN  /\ \A text \in CheckedTexts : \A o \in OneError(TextOutsFor(ud)) :
                   ReportedAndReset(handle_message(ud, files, text, o))
            /\ \A doc \in CheckedDocuments : \A o \in OneError(DocumentOutsFor(ud)) :
                   ReportedAndReset(DocumentRun(ud, files, doc, o))
            /\ \A data \in Pressable(u) : \A o \in OneError(ButtonOutsFor(ud, data)) :
                   ReportedAndReset(ButtonRun(ud, files, data, o))

\* files with records whose names end in .txt in several letter cases, and
\* one whose name holds '.txt' twice
NamedDocuments ==
    { [file_id |-> "f1", file_name |-> name, size |-> 6,
       lines |-> << <<"A", "B", " ", "-", " ", "5">> >>] :
      name \in { <<"a", ".", "t", "x", "t">>,
                 <<"A", ".", "T", "X", "T">>,
                 <<"a", ".", "T", "x", "t">>,
                 <<"a", ".", "t", "x", "t", ".", "t", "x", "t">>,
                 <<".", "t", "x", "t">> } }

\* the name with its last four characters, the extension, replaced by .csv
WithCsvExtension(name) == SubSeq(name, 1, Len(name) - 4) \o CsvExt

\* C29: for every source file name accepted at waiting_file (its lower-cased
\* form ends in .txt, in any letter case) the default output name offered
\* and used for the delivery is the source name with only its final
\* extension replaced by .csv, and so ends in .csv.
C29_DefaultNameReplacesExtension ==
    \A u \in Users :
        LET ud == user_data[u]
        IN  Awaited(ud) =>
                \A doc \in NamedDocuments :
                    LET r == DocumentRun(ud, files, doc, Oks(7))
                        sent == ButtonRun(r.ud, r.files, "csv_use_default", Oks(9))
                    IN  /\ Has(r.ud, "default_filename")
                        /\ r.ud["default_filename"] = WithCsvExtension(doc.file_name)
                        /\ SentName(sent.log) = WithCsvExtension(doc.file_name)
                        /\ endswith(SentName(sent.log), CsvExt)

\* C30: a workflow-start command (Single, Batch or TextToTable) issued
\* while a TextToTable Session holds a materialized artifact (step
\* ask_rename or waiting_rename) is an implicit cancellation: the converted
\* file and the downloaded input are deleted from storage, so that no file
\* named by no Session remains.
C30_StartDeletesArtifacts ==
    \A u \in Users :
        LET ud == user_data[u]
        IN  /\ Mode(ud) = "txt2csv" /\ Step(ud) \in {"ask_rename", "waiting_rename"}
            /\ SessionFiles(ud) # {}
            =>  \A c \in {"start", "batch", "txt2csv"} : \A o \in CommandOuts :
                    LET r == CommandRun(c, ud, files, o)
                    IN  /\ SessionFiles(r.ud) = {}
                        /\ \A f \in SessionFiles(ud) : ~Exists(r.files, f)

(***************************************************************************)
(* The files of a failed conversion and the repeated confirmation.         *)
(***************************************************************************)
\* the conversion the run started returned a failure
ConversionFailed(log) ==
    \E i \in 1..Len(log) : log[i].op = "convert" /\ log[i].res = "error"

\* C31: when the conversion of an uploaded file fails (empty input or no
\* valid records), no file created for that upload remains in storage
\* when the handler ends: neither the downloaded input nor a partially
\* written output.
C31_FailedConversionLeavesNoFile ==
    \A u \in Users :
        LET ud == user_data[u]
        IN  Awaited(ud) =>
                \A doc \in CheckedDocuments : \A o \in DocumentOutsFor(ud) :
                    LET r == DocumentRun(ud, files, doc, o)
                    IN  ConversionFailed(r.log) =>
                            /\ ~Exists(r.files, TempPath(doc.file_id))
                            /\ ~Exists(r.files, ConvertedPath(doc.file_id))

\* the buttons that confirm a generation
GenerateButtons == {"generate", "batch_generate"}

\* the run ended with a delivery or with a delivery failure: it tried to
\* send the generated file
DeliveryEnded(r) == Sends(r.log) # <<>>

\* the run started no generation and tried to send no document
NothingTriggered(r) == ~Invoked(r.log) /\ Sends(r.log) = <<>>

====
